---- MODULE Spec2Model ----
(***************************************************************************)
(* Curve-fit optimization of netlist component values.                     *)
(*                                                                         *)
(* State machine of backend/optimization_process.py (optimizeProcess,      *)
(* add_part_constraints, add_node_constraints) and                         *)
(* backend/curvefit_optimization.py (session numbering, curvefit_optimize  *)
(* with its nested residuals function, the session log).                   *)
(*                                                                         *)
(* Numbers are integers.  An optional value (Python None) is the empty     *)
(* set, a present value v is {v}.  A queue message is a record with a tag; *)
(* a block of consecutive ("Log", text) messages is one Log entry.         *)
(***************************************************************************)
EXTENDS Integers, Sequences, FiniteSets, TLC

\* -------------------------------------------------------------------------
\* Bounds of the exploration
\* -------------------------------------------------------------------------
MaxEvals == 4

\* -------------------------------------------------------------------------
\* Generic helpers
\* -------------------------------------------------------------------------
None == {}

Some(v) == {v}

TheValue(o) == CHOOSE v \in o : TRUE

Range(s) == {s[i] : i \in 1..Len(s)}

Last(s) == s[Len(s)]

\* -------------------------------------------------------------------------
\* Netlist components (netlist_parse.Component)
\* -------------------------------------------------------------------------
Inf == 1000000

DefaultMinVal == 0 - 1

CompOrder == <<"R1", "R2", "R3">>

Names == Range(CompOrder)

StartValue == [n \in Names |->
                 CASE n = "R1" -> 100
                   [] n = "R2" -> 50
                   [] OTHER    -> 10]

Component(n) == [type |-> "R", value |-> StartValue[n], variable |-> FALSE,
                 modified |-> FALSE, minVal |-> DefaultMinVal, maxVal |-> Inf]

ParsedNetlist == [n \in Names |-> Component(n)]

\* -------------------------------------------------------------------------
\* Right-hand expressions of parameter constraints: eval(right, componentVals)
\* An evaluation yields [ok |-> TRUE, v |-> number] or, when Python raises
\* (division by zero), [ok |-> FALSE, v |-> 0].
\* -------------------------------------------------------------------------
Lit(c) == [k |-> "lit", n |-> "R1", c |-> c]

Mul(n, c) == [k |-> "mul", n |-> n, c |-> c]

Add(n, c) == [k |-> "add", n |-> n, c |-> c]

Quot(c, n) == [k |-> "quot", n |-> n, c |-> c]

Eval(e, ns) ==
    CASE e.k = "lit"  -> [ok |-> TRUE, v |-> e.c]
      [] e.k = "mul"  -> [ok |-> TRUE, v |-> ns[e.n] * e.c]
      [] e.k = "add"  -> [ok |-> TRUE, v |-> ns[e.n] + e.c]
      [] OTHER        -> IF ns[e.n] = 0 THEN [ok |-> FALSE, v |-> 0]
                         ELSE [ok |-> TRUE, v |-> e.c \div ns[e.n]]

ComponentVals(cs) == [n \in Names |-> cs[n].value]

PartConstraint(left, op, right) ==
    [type |-> "parameter", left |-> left, operator |-> op, right |-> right]

\* The match statement with an '=' case that forgets to clear the variable flag.
ApplyPartOperator_KeepsVariable(c, op, r) ==
    CASE op = ">=" -> IF c.value <= r
                      THEN [c EXCEPT !.minVal = r, !.value = r + 1, !.modified = TRUE]
                      ELSE [c EXCEPT !.minVal = r]
      [] op = "="  -> [c EXCEPT !.value = r, !.modified = TRUE]
      [] op = "<=" -> IF c.value >= r
                      THEN [c EXCEPT !.maxVal = r, !.value = r - 1, !.modified = TRUE]
                      ELSE [c EXCEPT !.maxVal = r]
      [] OTHER     -> c

\* One matched parameter constraint applied to its component
\* (the match statement of add_part_constraints).
ApplyPartOperator(c, op, r) ==
    CASE op = ">=" -> IF c.value <= r
                      THEN [c EXCEPT !.minVal = r, !.value = r + 1, !.modified = TRUE]
                      ELSE [c EXCEPT !.minVal = r]
      [] op = "="  -> [c EXCEPT !.value = r, !.variable = FALSE, !.modified = TRUE]
      [] op = "<=" -> IF c.value >= r
                      THEN [c EXCEPT !.maxVal = r, !.value = r - 1, !.modified = TRUE]
                      ELSE [c EXCEPT !.maxVal = r]
      [] OTHER     -> c

\* add_part_constraints(constraints, netlist): processes the constraints in
\* order, each against a namespace rebuilt from the current values.
\* Result: the components, the list of '=' constraints, and whether eval raised.
RECURSIVE AddPartFrom(_, _, _, _)
AddPartFrom(cons, i, cs, eq) ==
    IF i > Len(cons) THEN [comps |-> cs, eq |-> eq, ok |-> TRUE]
    ELSE LET con == cons[i] IN
         IF con.type # "parameter" \/ con.left \notin Names
            \/ con.operator \notin {">=", "=", "<="}
         THEN AddPartFrom(cons, i + 1, cs, eq)
         ELSE LET r == Eval(con.right, ComponentVals(cs)) IN
              IF ~r.ok THEN [comps |-> cs, eq |-> eq, ok |-> FALSE]
              ELSE AddPartFrom(cons, i + 1,
                       [cs EXCEPT ![con.left] = ApplyPartOperator(@, con.operator, r.v)],
                       IF con.operator = "=" THEN Append(eq, con) ELSE eq)

add_part_constraints(cons, cs) == AddPartFrom(cons, 1, cs, <<>>)

\* -------------------------------------------------------------------------
\* Node constraints (add_node_constraints) and their check in residuals
\* -------------------------------------------------------------------------
NodeConstraint(left, op, right, xmin, xmax) ==
    [type |-> "node", left |-> left, operator |-> op, right |-> right,
     x_min |-> xmin, x_max |-> xmax]

\* normalize_observable_for_analysis on a "V(<node>)" token: outside AC the
\* token is upper-cased; in AC a V(...) token gets the response prefix.
normalize_observable_for_analysis(node, analysis) ==
    [prefix |-> IF analysis.mode # "ac" THEN "V"
                ELSE CASE analysis.response \in {"magnitude", "magnitude_db"} -> "VM"
                       [] analysis.response = "phase" -> "VP"
                       [] analysis.response = "real"  -> "VR"
                       [] OTHER -> "VI",
     node |-> node]

\* The window built from one node constraint.
WindowOf(c) ==
    [lower |-> IF c.operator \in {">=", "="} THEN Some(c.right) ELSE None,
     upper |-> IF c.operator \in {"<=", "="} THEN Some(c.right) ELSE None,
     xmin  |-> c.x_min,
     xmax  |-> c.x_max]

\* add_node_constraints: formatted.setdefault(key, []).append(window).  The
\* dict is a sequence of [key, windows] groups in first-insertion order.
AppendWindow(formatted, key, w) ==
    IF \E g \in 1..Len(formatted) : formatted[g].key = key
    THEN [g \in 1..Len(formatted) |->
            IF formatted[g].key = key
            THEN [formatted[g] EXCEPT !.windows = Append(@, w)]
            ELSE formatted[g]]
    ELSE Append(formatted, [key |-> key, windows |-> <<w>>])

RECURSIVE AddNodeFrom(_, _, _, _)
AddNodeFrom(cons, i, analysis, formatted) ==
    IF i > Len(cons) THEN formatted
    ELSE IF cons[i].type # "node" THEN AddNodeFrom(cons, i + 1, analysis, formatted)
    ELSE AddNodeFrom(cons, i + 1, analysis,
             AppendWindow(formatted,
                          normalize_observable_for_analysis(cons[i].left, analysis),
                          WindowOf(cons[i])))

add_node_constraints(cons, analysis) == AddNodeFrom(cons, 1, analysis, <<>>)

\* _convert_array_to_db on one value: 20*log10(max(v, 1e-30)).  Sample
\* values are powers of ten, so the result is an integer; the floor 1e-30
\* gives -600.
RECURSIVE Log10(_)
Log10(v) == IF v < 10 THEN 0 ELSE 1 + Log10(v \div 10)

_convert_array_to_db(v) == IF v <= 0 THEN 0 - 600 ELSE 20 * Log10(v)

\* A result table is a sequence of rows [x, OUT, N2] plus the set of column
\* headers the simulator printed.
Column(table, node) == [i \in 1..Len(table.rows) |-> table.rows[i][node]]

XColumn(table) == [i \in 1..Len(table.rows) |-> table.rows[i].x]

\* node_values of residuals: the node's column, in dB when the session is
\* AC magnitude_db and the key starts with "VM(".
NodeValues(table, key, analysis) ==
    LET raw == Column(table, key.node) IN
    IF analysis.mode = "ac" /\ analysis.response = "magnitude_db" /\ key.prefix = "VM"
    THEN [i \in DOMAIN raw |-> _convert_array_to_db(raw[i])]
    ELSE raw

\* A mask that drops the samples on the upper edge of the x-range.
WindowMask_Exclusive(X, w) ==
    {i \in DOMAIN X :
        /\ (w.xmin = None \/ X[i] >= TheValue(w.xmin))
        /\ (w.xmax = None \/ X[i] < TheValue(w.xmax))}

\* mask of one window over the x column (indices kept).
WindowMask(X, w) ==
    {i \in DOMAIN X :
        /\ (w.xmin = None \/ X[i] >= TheValue(w.xmin))
        /\ (w.xmax = None \/ X[i] <= TheValue(w.xmax))}

\* The test of one window: an empty mask is skipped, otherwise any masked
\* value below lower or above upper breaches.
WindowBreached(X, vals, w) ==
    LET mask == WindowMask(X, w) IN
    IF mask = {} THEN FALSE
    ELSE \/ (w.lower # None /\ \E i \in mask : vals[i] < TheValue(w.lower))
         \/ (w.upper # None /\ \E i \in mask : vals[i] > TheValue(w.upper))

\* The windows of one key, in order: TRUE when one of them is breached.
RECURSIVE WindowLoopFrom(_, _, _, _)
WindowLoopFrom(windows, j, X, vals) ==
    IF j > Len(windows) THEN FALSE
    ELSE IF WindowBreached(X, vals, windows[j]) THEN TRUE
    ELSE WindowLoopFrom(windows, j + 1, X, vals)

\* The node-constraint loop of residuals over the keys of the dict:
\* "raise" when a key has no column in the table (resolve_header_index),
\* "penalty" when the penalty vector is returned, else "pass".
RECURSIVE NodeLoopFrom(_, _, _, _)
NodeLoopFrom(ncs, g, tbl, analysis) ==
    IF g > Len(ncs) THEN "pass"
    ELSE IF ncs[g].key.node \notin tbl.headers THEN "raise"
    ELSE IF WindowLoopFrom(ncs[g].windows, 1, XColumn(tbl),
                           NodeValues(tbl, ncs[g].key, analysis))
         THEN "penalty"
         ELSE NodeLoopFrom(ncs, g + 1, tbl, analysis)

NodeConstraintCheck(ncs, tbl, analysis) == NodeLoopFrom(ncs, 1, tbl, analysis)

\* -------------------------------------------------------------------------
\* Paths and session numbering
\* A path is [root, group, n, file]: "runs/<n>/session.log" has the empty
\* group <<>>, "runs/<lo>-<hi>/<n>/optimized.txt" has group <<lo, hi>>.
\* A directory is a path with file "".
\* -------------------------------------------------------------------------
Path(root, group, n, file) == [root |-> root, group |-> group, n |-> n, file |-> file]

DirOf(p) == [p EXCEPT !.file = ""]

\* os.path.join("runs", str(session_num), "session.log")
SessionLogPath(n) == Path("runs", <<>>, n, "session.log")

\* A probe that counts the logs instead of testing each number.
ProbeFrom_Count(n, files) == n + Cardinality(files)

\* The linear probe of get_session_log_file / get_current_session_number.
RECURSIVE ProbeFrom(_, _)
ProbeFrom(n, files) ==
    IF SessionLogPath(n) \notin files THEN n ELSE ProbeFrom(n + 1, files)

get_current_session_number(files) == ProbeFrom(1, files)

get_session_log_file(files) == SessionLogPath(ProbeFrom(1, files))

\* group_folder of optimizeProcess: "<group_start>-<group_end>"
GroupFolder(n) == LET group_start == ((n - 1) \div 10) * 10 + 1
                  IN  <<group_start, group_start + 9>>

\* WRITABLE_NETLIST_PATH of optimizeProcess
WritableNetlistPath(n) == Path("runs", GroupFolder(n), n, "optimized.txt")

ORIG_NETLIST_PATH == Path("netlists", <<>>, 0, "circuit.cir")

\* A file path of the netlist object other than the netlistPath argument.
MovedNetlistPath == Path("netlists", <<>>, 0, "moved.cir")

\* The working copy a direct caller of curvefit_optimize passes.
CallerCopyPath == Path("netlists", <<>>, 0, "circuit_copy.cir")

\* -------------------------------------------------------------------------
\* Inputs of a run
\* -------------------------------------------------------------------------
Analysis(mode, response, ready) == [mode |-> mode, response |-> response, ready |-> ready]

AnalysisChoices ==
    {Analysis("transient", "magnitude", TRUE),
     Analysis("ac", "magnitude_db", TRUE),
     Analysis("noise", "onoise", TRUE),
     Analysis("noise", "onoise", FALSE)}

PartLists ==
    {<<>>,
     <<PartConstraint("R2", "=", Mul("R1", 2))>>,
     <<PartConstraint("R2", "=", Mul("R1", 2)), PartConstraint("R3", "=", Add("R2", 10))>>,
     <<PartConstraint("R2", "=", Quot(100, "R1"))>>,
     <<PartConstraint("R1", ">=", Lit(50))>>}

NodeLists ==
    {<<NodeConstraint("N2", "<=", 10, None, Some(1))>>}

SelectionChoices == {{"R1"}, {"R1", "R2"}}

ExistingSessions == {{}, 1..10}

\* Values the solver proposes for a parameter besides the starting value.
SolverValues == {0, 50}

\* -------------------------------------------------------------------------
\* State
\* -------------------------------------------------------------------------
VARIABLES
    entry,            \* "optimizeProcess" or "direct": who drives the run
    args,             \* inputs of the run: analysis, constraints, selectedParameters, RLCBounds
    pc,               \* position of the run
    comps,            \* netlistObject.components: name -> Component
    file_path,        \* netlistObject.file_path
    original_netlist_path, \* optimizeProcess local
    writable,         \* WRITABLE_NETLIST_PATH / writable_netlist_path (None before it is set)
    NODE_CONSTRAINTS,
    EQUALITY_PART_CONSTRAINTS,
    fsDirs,           \* directories that exist
    logs,             \* session log files: path -> sequence of entries
    netfile,          \* working netlist copy: name -> value token, <<>> while absent
    outputs,          \* result files next to the working copy: suffix -> [run, table]
    queue,            \* observer channel
    lastQuery,        \* result of the last next-session query (0: none yet)
    xyceRuns,         \* module global of curvefit_optimization
    invocations,      \* simulator processes started (history)
    simulator,        \* simulator processes started and not yet exited
    session_log_file, \* curvefit_optimize local (None before it is set)
    all_run_results,
    run_info,
    changing_components,
    evals,            \* parameter vectors evaluated so far
    x,                \* component_values of the evaluation in progress
    run_state,        \* first_run / master_x_points
    table,            \* table parsed by the evaluation in progress
    residual,         \* value returned by the last residual evaluation
    metrics,          \* leastSquaresIterations, initialCost, finalCost, optimality
    raised,           \* where the exception that aborted the run was raised ("none" if none)
    call,             \* arguments of a function applied on its own (None: no such application)
    ret,              \* result of that application (None before it)
    result            \* value returned by curvefit_optimize (None before the return)

inputVars == <<entry, args>>

netlistVars == <<comps, file_path>>

driverVars == <<original_netlist_path, writable, NODE_CONSTRAINTS, EQUALITY_PART_CONSTRAINTS>>

fsVars == <<fsDirs, logs, netfile, outputs>>

sessionVars == <<session_log_file, all_run_results, run_info, changing_components,
                 evals, x, run_state, table, residual, metrics, result>>

fnVars == <<call, ret>>

vars == <<inputVars, pc, netlistVars, driverVars, fsVars, queue, lastQuery,
          xyceRuns, invocations, simulator, sessionVars, raised, fnVars>>

Msg(tag) == [tag |-> tag]

ZeroMetrics == [leastSquaresIterations |-> 0, initialCost |-> 0, finalCost |-> 0, optimality |-> 0]

NoTable == [headers |-> {}, rows |-> <<>>]

InitArgs ==
    [analysis : AnalysisChoices,
     parts : PartLists,
     nodes : NodeLists,
     selectedParameters : SelectionChoices,
     RLCBounds : {<<FALSE, FALSE, FALSE>>, <<TRUE, FALSE, FALSE>>}]

\* The state before a run: the inputs are drawn from argSet, the sessions
\* that already have a log from existing, the file path of the netlist
\* object from paths.
InitStateAt(argSet, existing, paths) ==
    /\ entry \in {"optimizeProcess", "direct"}
    /\ args \in argSet
    /\ entry = "direct" => (args.RLCBounds = <<FALSE, FALSE, FALSE>> /\ args.analysis.ready)
    /\ pc = "start"
    /\ comps = ParsedNetlist
    /\ file_path \in paths
    /\ original_netlist_path = ORIG_NETLIST_PATH
    /\ writable = None
    /\ NODE_CONSTRAINTS = <<>>
    /\ EQUALITY_PART_CONSTRAINTS = <<>>
    /\ \E old \in existing :
          /\ logs = [p \in {SessionLogPath(n) : n \in old} |-> <<[t |-> "OLD"]>>]
          /\ fsDirs = {DirOf(SessionLogPath(n)) : n \in old}
    /\ netfile = <<>>
    /\ outputs = <<>>
    /\ queue = <<>>
    /\ lastQuery = 0
    /\ xyceRuns = 0
    /\ invocations = 0
    /\ simulator = {}
    /\ session_log_file = None
    /\ all_run_results = <<>>
    /\ run_info = <<>>
    /\ changing_components = <<>>
    /\ evals = {}
    /\ x = <<>>
    /\ run_state = [first_run |-> TRUE, master_x_points |-> <<>>]
    /\ table = NoTable
    /\ residual = None
    /\ metrics = ZeroMetrics
    /\ raised = "none"
    /\ result = None

\* The netlist object was parsed from the path handed to optimizeProcess.
InitState(argSet, existing) == InitStateAt(argSet, existing, {ORIG_NETLIST_PATH})

InitRun(argSet, existing) == InitState(argSet, existing) /\ call = None /\ ret = None

Init == InitRun(InitArgs, ExistingSessions)

\* The constraint list handed to the driver: parameter then node constraints.
Constraints == args.parts \o args.nodes

\* -------------------------------------------------------------------------
\* Netlist.class_to_file on the working copy: the value token of every
\* component flagged modified is rewritten and the flags are cleared; a
\* missing file is reported and nothing changes.
\* -------------------------------------------------------------------------
FileAfterWrite(cs, f) ==
    IF f = <<>> THEN f
    ELSE [n \in Names |-> IF cs[n].modified THEN cs[n].value ELSE f[n]]

CompsAfterWrite(cs, f) ==
    IF f = <<>> THEN cs
    ELSE [n \in Names |-> [cs[n] EXCEPT !.modified = FALSE]]

\* -------------------------------------------------------------------------
\* A next-session query by any caller (get_current_session_number): it
\* creates the session directory and returns the number.
\* -------------------------------------------------------------------------
Query ==
    /\ UNCHANGED fnVars
    /\ lastQuery' = get_current_session_number(DOMAIN logs)
    /\ fsDirs' = fsDirs \cup {DirOf(SessionLogPath(get_current_session_number(DOMAIN logs)))}
    /\ UNCHANGED <<inputVars, pc, netlistVars, driverVars, logs, netfile, outputs, queue,
                   xyceRuns, invocations, simulator, sessionVars, raised>>

\* -------------------------------------------------------------------------
\* optimizeProcess
\* -------------------------------------------------------------------------
\* Lines 253-255: the selected parameters become variable.
SelectParameters(cs, selected) ==
    [n \in Names |-> IF n \in selected THEN [cs[n] EXCEPT !.variable = TRUE] ELSE cs[n]]

\* Lines 259-280: default bounds per element type, then minVal -1 becomes 0.
DefaultBoundsOf(c, flag) ==
    LET lo == IF flag /\ c.minVal = DefaultMinVal THEN c.value \div 10 ELSE c.minVal
        hi == IF flag /\ c.maxVal = Inf THEN c.value * 10 ELSE c.maxVal
    IN  [c EXCEPT !.minVal = IF lo = DefaultMinVal THEN 0 ELSE lo, !.maxVal = hi]

TypeFlag(type, RLCBounds) ==
    CASE type = "R" -> RLCBounds[1]
      [] type = "L" -> RLCBounds[2]
      [] type = "C" -> RLCBounds[3]
      [] OTHER      -> FALSE

DefaultBounds(cs, RLCBounds) ==
    [n \in Names |-> DefaultBoundsOf(cs[n], TypeFlag(cs[n].type, RLCBounds))]

\* Parameters of curvefit_optimize and the keywords of the call in
\* optimizeProcess; Python raises TypeError when a keyword is no parameter.
CurvefitParameters ==
    {"target_value", "target_curve_rows", "netlist", "writable_netlist_path",
     "node_constraints", "equality_part_constraints", "queue",
     "custom_xtol", "custom_gtol", "custom_ftol",
     "analysis_type", "x_parameter", "ac_response", "noise_settings"}

CallKeywords ==
    {"analysis_type", "x_parameter", "ac_response", "noise_settings", "xyce_executable_path"}

CallBinds == CallKeywords \subseteq CurvefitParameters

\* Lines 138-387: everything up to the call of curvefit_optimize.
OP_Prepare ==
    /\ UNCHANGED fnVars
    /\ pc = "start" /\ entry = "optimizeProcess"
    /\ LET session_num == get_current_session_number(DOMAIN logs)
           selected == SelectParameters(comps, args.selectedParameters)
           apc == add_part_constraints(Constraints, selected)
           bounded == DefaultBounds(apc.comps, args.RLCBounds)
           copy == [n \in Names |-> StartValue[n]]
       IN
       /\ original_netlist_path' = file_path
       /\ fsDirs' = fsDirs \cup {DirOf(SessionLogPath(session_num)),
                                 DirOf(WritableNetlistPath(session_num))}
       /\ writable' = Some(WritableNetlistPath(session_num))
       /\ NODE_CONSTRAINTS' = IF args.analysis.mode = "noise" THEN <<>>
                              ELSE add_node_constraints(Constraints, args.analysis)
       /\ IF ~apc.ok
          THEN \* eval raised inside add_part_constraints (line 257)
               /\ comps' = apc.comps
               /\ UNCHANGED <<EQUALITY_PART_CONSTRAINTS, netfile, file_path>>
               /\ raised' = "constraint_eval"
               /\ pc' = "op_except"
          ELSE /\ EQUALITY_PART_CONSTRAINTS' = apc.eq
               /\ file_path' = ORIG_NETLIST_PATH
               /\ netfile' = FileAfterWrite(bounded, copy)
               /\ comps' = CompsAfterWrite(bounded, copy)
               /\ IF args.analysis.mode = "noise" /\ ~args.analysis.ready
                  THEN \* lines 357-360: no output node or input source
                       raised' = "noise_settings" /\ pc' = "op_except"
                  ELSE raised' = raised /\ pc' = "op_call"
    /\ UNCHANGED <<inputVars, logs, outputs, queue, lastQuery, xyceRuns, invocations, simulator,
                   sessionVars>>

\* Lines 389-405: the call of curvefit_optimize.
OP_Call ==
    /\ UNCHANGED fnVars
    /\ pc = "op_call"
    /\ IF CallBinds
       THEN pc' = "cf_begin" /\ raised' = raised
       ELSE pc' = "op_except" /\ raised' = "call_binding"
    /\ UNCHANGED <<inputVars, netlistVars, driverVars, fsVars, queue, lastQuery,
                   xyceRuns, invocations, simulator, sessionVars>>

\* An except branch that reports nothing to the observer.
OP_Except_Silent ==
    /\ UNCHANGED fnVars
    /\ pc = "op_except"
    /\ queue' = queue \o <<Msg("UpdateNetlist"), Msg("Update")>>
    /\ file_path' = ORIG_NETLIST_PATH
    /\ pc' = "op_finally"
    /\ UNCHANGED <<inputVars, comps, driverVars, fsVars, lastQuery, xyceRuns, invocations, simulator,
                   sessionVars, raised>>

\* Lines 419-432: the except branch.
OP_Except ==
    /\ UNCHANGED fnVars
    /\ pc = "op_except"
    /\ queue' = queue \o <<Msg("Failed"), Msg("UpdateNetlist"), Msg("Update")>>
    /\ file_path' = ORIG_NETLIST_PATH
    /\ pc' = "op_finally"
    /\ UNCHANGED <<inputVars, comps, driverVars, fsVars, lastQuery, xyceRuns, invocations, simulator,
                   sessionVars, raised>>

\* A finally branch that leaves the file path as the run set it.
OP_Finally_NoRestore ==
    /\ UNCHANGED fnVars
    /\ pc = "op_finally"
    /\ pc' = "done"
    /\ UNCHANGED <<inputVars, netlistVars, driverVars, fsVars, queue, lastQuery, xyceRuns,
                   invocations, simulator, sessionVars, raised>>

\* Lines 433-434: the finally branch.
OP_Finally ==
    /\ UNCHANGED fnVars
    /\ pc = "op_finally"
    /\ file_path' = original_netlist_path
    /\ pc' = "done"
    /\ UNCHANGED <<inputVars, comps, driverVars, fsVars, queue, lastQuery, xyceRuns,
                   invocations, simulator, sessionVars, raised>>

\* -------------------------------------------------------------------------
\* A direct caller of curvefit_optimize (the form of the voltage-divider
\* script kept at the end of curvefit_optimization.py): it marks the
\* selected components variable, builds the constraint arguments with
\* add_part_constraints / add_node_constraints, copies the netlist and calls
\* curvefit_optimize with positional arguments.
\* -------------------------------------------------------------------------
Direct_Prepare ==
    /\ UNCHANGED fnVars
    /\ pc = "start" /\ entry = "direct"
    /\ LET selected == SelectParameters(comps, args.selectedParameters)
           apc == add_part_constraints(Constraints, selected)
       IN
       /\ comps' = apc.comps
       /\ NODE_CONSTRAINTS' = add_node_constraints(Constraints, args.analysis)
       /\ IF apc.ok
          THEN /\ EQUALITY_PART_CONSTRAINTS' = apc.eq
               /\ writable' = Some(CallerCopyPath)
               /\ netfile' = [n \in Names |-> StartValue[n]]
               /\ raised' = raised
               /\ pc' = "cf_begin"
          ELSE /\ UNCHANGED <<EQUALITY_PART_CONSTRAINTS, writable, netfile>>
               /\ raised' = "constraint_eval"
               /\ pc' = "done"
    /\ UNCHANGED <<inputVars, file_path, original_netlist_path, fsDirs, logs, outputs,
                   queue, lastQuery, xyceRuns, invocations, simulator, sessionVars>>

\* -------------------------------------------------------------------------
\* curvefit_optimize: result files of the simulator
\* -------------------------------------------------------------------------
output_suffixes(mode) ==
    CASE mode = "ac"    -> <<".FD.prn", ".prn">>
      [] mode = "noise" -> <<".NOISE.prn", ".NOISE0.prn", ".FD.prn", ".prn">>
      [] OTHER          -> <<".prn">>

\* _remove_old_outputs: the files with a listed suffix are deleted.
_remove_old_outputs(outs, mode) ==
    [sfx \in DOMAIN outs \ Range(output_suffixes(mode)) |-> outs[sfx]]

\* _resolve_output_file: the first listed suffix that exists, else the most
\* recently modified match of "<base>*.prn".  The result is the set of files
\* the call can return; the empty set means FileNotFoundError.
RECURSIVE FirstListed(_, _, _)
FirstListed(suffixes, i, outs) ==
    IF i > Len(suffixes) THEN None
    ELSE IF suffixes[i] \in DOMAIN outs THEN Some(suffixes[i])
    ELSE FirstListed(suffixes, i + 1, outs)

_resolve_output_file(outs, mode) ==
    LET listed == FirstListed(output_suffixes(mode), 1, outs) IN
    IF listed # None THEN listed
    ELSE {sfx \in DOMAIN outs : \A other \in DOMAIN outs : outs[other].mtime <= outs[sfx].mtime}

\* parse_xyce_prn_output: header row and data rows of the result file.
parse_xyce_prn_output(file) == file.table

Row(xv, out, n2) == [x |-> xv, OUT |-> out, N2 |-> n2]

AllHeaders == {"X", "OUT", "N2"}

\* Tables the simulator writes in the runs explored.
SimTables ==
    {[headers |-> AllHeaders, rows |-> <<Row(0, 4, 1), Row(1, 4, 1), Row(2, 4, 1)>>],
     [headers |-> AllHeaders, rows |-> <<Row(0, 4, 100), Row(1, 4, 1)>>],
     [headers |-> AllHeaders, rows |-> <<Row(0, 4, 1), Row(2, 4, 100)>>],
     [headers |-> {"X", "N2"}, rows |-> <<Row(0, 4, 1), Row(1, 4, 1)>>]}

PlainTable == [headers |-> AllHeaders, rows |-> <<Row(0, 4, 1), Row(1, 4, 1)>>]

\* The file one simulator invocation writes in the runs explored has the
\* primary suffix of the analysis, or a suffix only the glob matches.
PrimarySuffix(mode) == output_suffixes(mode)[1]

GlobOnlySuffix == ".HB.prn"

WriteOutput(outs, sfx, time, tbl) ==
    [f \in DOMAIN outs \cup {sfx} |->
        IF f = sfx THEN [mtime |-> time, table |-> tbl] ELSE outs[f]]

\* -------------------------------------------------------------------------
\* curvefit_optimize: solver interface
\* -------------------------------------------------------------------------
\* Line 221: the variable components, in netlist order.
ChangingComponents(cs) == SelectSeq(CompOrder, LAMBDA n : cs[n].variable)

lower_bounds(cs, changing) == [i \in 1..Len(changing) |-> cs[changing[i]].minVal]

upper_bounds(cs, changing) == [i \in 1..Len(changing) |-> cs[changing[i]].maxVal]

\* least_squares rejects bounds with lb >= ub and a start outside the bounds.
Feasible(x0, lb, ub) ==
    \A i \in 1..Len(x0) : lb[i] < ub[i] /\ lb[i] <= x0[i] /\ x0[i] <= ub[i]

\* Parameter vectors the solver may request inside the bounds.
SolverVectors(cs, changing) ==
    {v \in [1..Len(changing) -> SolverValues] :
        \A i \in 1..Len(changing) :
            /\ lower_bounds(cs, changing)[i] <= v[i]
            /\ v[i] <= upper_bounds(cs, changing)[i]}

\* Lines 272-278: the solver's values are written into the model.
RECURSIVE WriteValuesFrom(_, _, _, _)
WriteValuesFrom(cs, changing, values, i) ==
    IF i > Len(values) THEN cs
    ELSE WriteValuesFrom([cs EXCEPT ![changing[i]] = [@ EXCEPT !.value = values[i], !.modified = TRUE]],
                         changing, values, i + 1)

\* Lines 280-291: the equality constraints are enforced; componentVals is
\* built once, before the loop over the constraints.
RECURSIVE EnforceFrom(_, _, _, _)
EnforceFrom(cs, eq, i, componentVals) ==
    IF i > Len(eq) THEN [comps |-> cs, ok |-> TRUE]
    ELSE IF eq[i].left \notin Names THEN EnforceFrom(cs, eq, i + 1, componentVals)
    ELSE LET r == Eval(eq[i].right, componentVals) IN
         IF ~r.ok THEN [comps |-> cs, ok |-> FALSE]
         ELSE EnforceFrom([cs EXCEPT ![eq[i].left] =
                               [@ EXCEPT !.value = r.v, !.variable = FALSE, !.modified = TRUE]],
                          eq, i + 1, componentVals)

EnforceEquality(cs, eq) == EnforceFrom(cs, eq, 1, ComponentVals(cs))

\* A first label that is one too small once more than three runs exist.
start_run_num_OffByOne(all) == IF Len(all) - 3 > 1 THEN Len(all) - 3 ELSE 1

\* Lines 539-553: the run records written to the session log.
last_runs(all) == IF Len(all) >= 3 THEN SubSeq(all, Len(all) - 2, Len(all)) ELSE all

start_run_num(all) == IF Len(all) - 2 > 1 THEN Len(all) - 2 ELSE 1

RunDetails(all) ==
    IF all = <<>> THEN <<>>
    ELSE <<[t |-> "DETAILS"]>> \o
         [i \in 1..Len(last_runs(all)) |->
            [t |-> "RUN", label |-> start_run_num(all) + (i - 1), lines |-> last_runs(all)[i]]]

Penalty == 1000000

AppendLog(ls, file, entries) == [ls EXCEPT ![file] = @ \o entries]

\* -------------------------------------------------------------------------
\* curvefit_optimize
\* -------------------------------------------------------------------------
TheLog == TheValue(session_log_file)

\* Lines 125-230: session log file, header, initial state of the session.
CF_Begin ==
    /\ UNCHANGED fnVars
    /\ pc = "cf_begin"
    /\ LET log_file == get_session_log_file(DOMAIN logs) IN
       /\ session_log_file' = Some(log_file)
       /\ fsDirs' = fsDirs \cup {DirOf(log_file)}
       /\ logs' = [p \in DOMAIN logs \cup {log_file} |->
                      IF p = log_file THEN <<[t |-> "HEADER"]>> ELSE logs[p]]
    /\ queue' = Append(queue, Msg("Log"))
    /\ all_run_results' = <<>>
    /\ xyceRuns' = 0
    /\ metrics' = ZeroMetrics
    /\ changing_components' = ChangingComponents(comps)
    /\ run_state' = [first_run |-> TRUE, master_x_points |-> <<>>]
    /\ pc' = "least_squares"
    /\ UNCHANGED <<inputVars, netlistVars, driverVars, netfile, outputs, lastQuery,
                   invocations, simulator, run_info, evals, x, table, residual, result, raised>>

\* Lines 469-475: least_squares is entered; it checks the bounds and the
\* start vector and then evaluates the start vector.
LeastSquares_Enter ==
    /\ UNCHANGED fnVars
    /\ pc = "least_squares"
    /\ queue' = Append(queue, Msg("Log"))
    /\ LET x0 == [i \in 1..Len(changing_components) |-> comps[changing_components[i]].value] IN
       IF Feasible(x0, lower_bounds(comps, changing_components),
                       upper_bounds(comps, changing_components))
       THEN x' = x0 /\ pc' = "residuals" /\ raised' = raised
       ELSE x' = x /\ pc' = "cf_except" /\ raised' = "infeasible_start"
    /\ UNCHANGED <<inputVars, netlistVars, driverVars, fsVars, lastQuery, xyceRuns,
                   invocations, simulator, session_log_file, all_run_results, run_info,
                   changing_components, evals, run_state, table, residual, metrics, result>>

\* Lines 266-278 of residuals: the run counter, the model's file path and
\* the solver's values written into the model.
Residuals_WriteValues ==
    /\ UNCHANGED fnVars
    /\ pc = "residuals"
    /\ xyceRuns' = xyceRuns + 1
    /\ file_path' = TheValue(writable)
    /\ evals' = evals \cup {x}
    /\ comps' = WriteValuesFrom(comps, changing_components, x, 1)
    /\ pc' = "enforce"
    /\ UNCHANGED <<inputVars, driverVars, fsVars, queue, lastQuery, invocations, simulator,
                   session_log_file, all_run_results, run_info, changing_components, x,
                   run_state, table, residual, metrics, result, raised>>

\* Lines 280-291 of residuals: the equality constraints are re-applied; an
\* exception of eval leaves residuals and least_squares.
Residuals_EnforceEquality ==
    /\ UNCHANGED fnVars
    /\ pc = "enforce"
    /\ LET enforced == EnforceEquality(comps, EQUALITY_PART_CONSTRAINTS) IN
       /\ comps' = enforced.comps
       /\ IF enforced.ok
          THEN raised' = raised /\ pc' = "persist"
          ELSE raised' = "constraint_eval" /\ pc' = "cf_except"
    /\ UNCHANGED <<inputVars, file_path, driverVars, fsVars, queue, lastQuery, xyceRuns,
                   invocations, simulator, sessionVars>>

\* Line 293 of residuals: the working netlist is persisted.
Residuals_Persist ==
    /\ UNCHANGED fnVars
    /\ pc = "persist"
    /\ netfile' = FileAfterWrite(comps, netfile)
    /\ comps' = CompsAfterWrite(comps, netfile)
    /\ pc' = "remove"
    /\ UNCHANGED <<inputVars, file_path, driverVars, fsDirs, logs, outputs, queue, lastQuery,
                   xyceRuns, invocations, simulator, sessionVars, raised>>

\* Lines 294-304 of residuals: the stale result files are deleted and the
\* first lines of the run record are logged.
Residuals_RemoveOutputs ==
    /\ UNCHANGED fnVars
    /\ pc = "remove"
    /\ outputs' = _remove_old_outputs(outputs, args.analysis.mode)
    /\ run_info' = <<[l |-> "start", run |-> xyceRuns]>>
    /\ queue' = Append(queue, Msg("Log"))
    /\ pc' = "xyce"
    /\ UNCHANGED <<inputVars, netlistVars, driverVars, fsDirs, logs, netfile, lastQuery,
                   xyceRuns, invocations, simulator, session_log_file, all_run_results,
                   changing_components, evals, x, run_state, table, residual, metrics,
                   result, raised>>

\* A simulator start that does not wait for the process.
Xyce_Start_Detached ==
    /\ UNCHANGED fnVars
    /\ pc = "xyce"
    /\ invocations' = invocations + 1
    /\ simulator' = simulator \cup {invocations + 1}
    /\ pc' = "parse"
    /\ UNCHANGED <<inputVars, netlistVars, driverVars, fsVars, queue, lastQuery, xyceRuns,
                   sessionVars, raised>>

\* Line 307: subprocess.run starts the simulator and blocks.
Xyce_Start ==
    /\ UNCHANGED fnVars
    /\ pc = "xyce"
    /\ invocations' = invocations + 1
    /\ simulator' = simulator \cup {invocations + 1}
    /\ pc' = "running"
    /\ UNCHANGED <<inputVars, netlistVars, driverVars, fsVars, queue, lastQuery, xyceRuns,
                   sessionVars, raised>>

\* Line 307: subprocess.run raises when the executable cannot be started.
Xyce_Missing ==
    /\ UNCHANGED fnVars
    /\ pc = "xyce"
    /\ raised' = "simulator_start"
    /\ pc' = "cf_except"
    /\ UNCHANGED <<inputVars, netlistVars, driverVars, fsVars, queue, lastQuery, xyceRuns,
                   invocations, simulator, sessionVars>>

\* Lines 307-361: the simulator writes one result file or none and exits;
\* subprocess.run returns and its output is logged.
Xyce_Exit ==
    /\ UNCHANGED fnVars
    /\ pc = "running"
    /\ \E p \in simulator :
         /\ simulator' = simulator \ {p}
         /\ \/ UNCHANGED outputs
            \/ \E tbl \in SimTables :
                  outputs' = WriteOutput(outputs, PrimarySuffix(args.analysis.mode), p, tbl)
            \/ outputs' = WriteOutput(outputs, GlobOnlySuffix, p, PlainTable)
    /\ run_info' = Append(run_info, [l |-> "xyce"])
    /\ queue' = Append(queue, Msg("Log"))
    /\ pc' = "parse"
    /\ UNCHANGED <<inputVars, netlistVars, driverVars, fsDirs, logs, netfile, lastQuery,
                   xyceRuns, invocations, session_log_file, all_run_results,
                   changing_components, evals, x, run_state, table, residual, metrics,
                   result, raised>>

\* Lines 214-216: the target curve handed to curvefit_optimize.
TEST_ROWS == <<[x |-> 0, y |-> 5], [x |-> 2, y |-> 5]>>

\* interp1d(xs, ys) evaluated at xq: linear interpolation between the
\* neighbouring samples; a point outside the x-range raises (None).
Interp1d(xs, ys, xq) ==
    IF \E i \in 1..(Len(xs) - 1) : xs[i] <= xq /\ xq <= xs[i + 1]
    THEN LET i == CHOOSE j \in 1..(Len(xs) - 1) : xs[j] <= xq /\ xq <= xs[j + 1]
         IN  Some(ys[i] + ((ys[i + 1] - ys[i]) * (xq - xs[i])) \div (xs[i + 1] - xs[i]))
    ELSE None

ideal_interpolation(xq) ==
    Interp1d([i \in 1..Len(TEST_ROWS) |-> TEST_ROWS[i].x],
             [i \in 1..Len(TEST_ROWS) |-> TEST_ROWS[i].y], xq)

xyce_interpolation(tbl, xq) == Interp1d(XColumn(tbl), Column(tbl, "OUT"), xq)

\* A grid that follows the x column of every evaluation.
MasterGrid_Recaptured(rs, tbl) == XColumn(tbl)

\* Lines 423-425: the grid is the x column of the first evaluation.
MasterGrid(rs, tbl) == IF rs.first_run THEN XColumn(tbl) ELSE rs.master_x_points

\* Line 463: the penalty vector.
PenaltyVector(master) == [i \in 1..Len(master) |-> Penalty]

\* Line 467: target minus simulated on the grid; the empty set when one of
\* the interpolations raises.
DifferenceVector(master, tbl) ==
    IF \A i \in 1..Len(master) :
          ideal_interpolation(master[i]) # None /\ xyce_interpolation(tbl, master[i]) # None
    THEN Some([i \in 1..Len(master) |->
                  TheValue(ideal_interpolation(master[i]))
                  - TheValue(xyce_interpolation(tbl, master[i]))])
    ELSE None

\* Lines 364-467 of residuals: output resolution, parsing, the run record,
\* header resolution, the grid, the node constraints, the residual vector.
Residuals_Finish ==
    /\ UNCHANGED fnVars
    /\ pc = "parse"
    /\ IF _resolve_output_file(outputs, args.analysis.mode) = {}
       THEN /\ raised' = "output_resolution"
            /\ pc' = "cf_except"
            /\ UNCHANGED <<run_info, all_run_results, table, run_state, residual, queue>>
       ELSE \E sfx \in _resolve_output_file(outputs, args.analysis.mode) :
            LET xyce_parse == parse_xyce_prn_output(outputs[sfx])
                info == Append(run_info, [l |-> "parse", file |-> sfx,
                                          points |-> Len(xyce_parse.rows)])
                master == MasterGrid(run_state, xyce_parse)
                check == NodeConstraintCheck(NODE_CONSTRAINTS, xyce_parse, args.analysis)
                difference == DifferenceVector(master, xyce_parse)
            IN
            /\ run_info' = info
            /\ all_run_results' = Append(all_run_results, info)
            /\ table' = xyce_parse
            /\ IF ~({"X", "OUT"} \subseteq xyce_parse.headers)
               THEN \* resolve_header_index raises for the x axis or the target
                    /\ queue' = Append(queue, Msg("Log"))
                    /\ raised' = "header_resolution"
                    /\ pc' = "cf_except"
                    /\ UNCHANGED <<run_state, residual>>
               ELSE /\ run_state' = [first_run |-> FALSE, master_x_points |-> master]
                    /\ queue' = queue \o <<Msg("Log"), Msg("Update"), Msg("UpdateYData")>>
                    /\ CASE check = "raise" ->
                              raised' = "header_resolution" /\ pc' = "cf_except" /\ residual' = residual
                         [] check = "penalty" ->
                              residual' = Some(PenaltyVector(master)) /\ raised' = raised /\ pc' = "ls_step"
                         [] OTHER ->
                              IF difference = None
                              THEN raised' = "interpolation" /\ pc' = "cf_except" /\ residual' = residual
                              ELSE residual' = difference /\ raised' = raised /\ pc' = "ls_step"
    /\ UNCHANGED <<inputVars, netlistVars, driverVars, fsVars, lastQuery, xyceRuns,
                   invocations, simulator, session_log_file, changing_components, evals, x,
                   metrics, result>>

\* least_squares requests another evaluation.
LeastSquares_Next ==
    /\ UNCHANGED fnVars
    /\ pc = "ls_step"
    /\ xyceRuns < MaxEvals
    /\ x' \in SolverVectors(comps, changing_components)
    /\ pc' = "residuals"
    /\ UNCHANGED <<inputVars, netlistVars, driverVars, fsVars, queue, lastQuery, xyceRuns,
                   invocations, simulator, session_log_file, all_run_results, run_info,
                   changing_components, evals, run_state, table, residual, metrics,
                   result, raised>>

\* A solver error that is not caught and leaves curvefit_optimize.
LeastSquares_Raise_Uncaught ==
    /\ UNCHANGED fnVars
    /\ pc = "ls_step"
    /\ raised' = "solver"
    /\ pc' = "done"
    /\ UNCHANGED <<inputVars, netlistVars, driverVars, fsVars, queue, lastQuery, xyceRuns,
                   invocations, simulator, sessionVars>>

\* least_squares raises (for instance on residuals it cannot use).
LeastSquares_Raise ==
    /\ UNCHANGED fnVars
    /\ pc = "ls_step"
    /\ raised' = "solver"
    /\ pc' = "cf_except"
    /\ UNCHANGED <<inputVars, netlistVars, driverVars, fsVars, queue, lastQuery, xyceRuns,
                   invocations, simulator, sessionVars>>

\* The solver's convergence summary as parsed at lines 505-511.
SolverSummary(n) == [leastSquaresIterations |-> n, initialCost |-> 2, finalCost |-> 1,
                     optimality |-> 1]

\* Lines 474-519: least_squares returns result.x, one of the evaluated
\* vectors; the optimum is written back and the summary is parsed.
LeastSquares_Return ==
    /\ UNCHANGED fnVars
    /\ pc = "ls_step"
    /\ \E best \in evals :
         LET optimal == WriteValuesFrom(comps, changing_components, best, 1) IN
         /\ netfile' = FileAfterWrite(optimal, netfile)
         /\ comps' = CompsAfterWrite(optimal, netfile)
    /\ file_path' = TheValue(writable)
    /\ logs' = AppendLog(logs, TheLog, <<[t |-> "COMPLETED"]>>)
    /\ queue' = queue \o <<Msg("Log")>>
    /\ metrics' = SolverSummary(xyceRuns)
    /\ pc' = "cf_finally"
    /\ UNCHANGED <<inputVars, driverVars, fsDirs, outputs, lastQuery, xyceRuns, invocations, simulator,
                   session_log_file, all_run_results, run_info, changing_components,
                   evals, x, run_state, table, residual, result, raised>>

\* An except branch that is not followed by the finally branch.
CF_Except_SkipsFooter ==
    /\ UNCHANGED fnVars
    /\ pc = "cf_except"
    /\ logs' = AppendLog(logs, TheLog, <<[t |-> "FAILED"]>>)
    /\ queue' = Append(queue, Msg("Log"))
    /\ pc' = "done"
    /\ UNCHANGED <<inputVars, netlistVars, driverVars, fsDirs, netfile, outputs, lastQuery,
                   xyceRuns, invocations, simulator, sessionVars, raised>>

\* Lines 521-526: the except branch.
CF_Except ==
    /\ UNCHANGED fnVars
    /\ pc = "cf_except"
    /\ logs' = AppendLog(logs, TheLog, <<[t |-> "FAILED"]>>)
    /\ queue' = Append(queue, Msg("Log"))
    /\ pc' = "cf_finally"
    /\ UNCHANGED <<inputVars, netlistVars, driverVars, fsDirs, netfile, outputs, lastQuery,
                   xyceRuns, invocations, simulator, sessionVars, raised>>

\* Lines 528-569: the finally branch and the return; when optimizeProcess
\* is the caller it continues with lines 407-418.
CF_Finally ==
    /\ UNCHANGED fnVars
    /\ pc = "cf_finally"
    /\ logs' = AppendLog(logs, TheLog,
                   <<[t |-> "METRICS", runs |-> xyceRuns, metrics |-> metrics]>>
                   \o RunDetails(all_run_results)
                   \o <<[t |-> "END"]>>)
    /\ result' = Some(<<xyceRuns, metrics.leastSquaresIterations, metrics.initialCost,
                        metrics.finalCost, metrics.optimality>>)
    /\ IF entry = "optimizeProcess"
       THEN /\ file_path' = ORIG_NETLIST_PATH
            /\ queue' = queue \o <<Msg("Log"), Msg("UpdateNetlist"),
                                    Msg("UpdateOptimizationResults"), Msg("Update"), Msg("Done")>>
            /\ pc' = "op_finally"
       ELSE /\ file_path' = file_path
            /\ queue' = Append(queue, Msg("Log"))
            /\ pc' = "done"
    /\ UNCHANGED <<inputVars, comps, driverVars, fsDirs, netfile, outputs, lastQuery,
                   xyceRuns, invocations, simulator, session_log_file, all_run_results, run_info,
                   changing_components, evals, x, run_state, table, residual, metrics, raised>>

Next ==
    \/ OP_Prepare
    \/ OP_Call
    \/ OP_Except
    \/ OP_Finally
    \/ Direct_Prepare
    \/ CF_Begin
    \/ LeastSquares_Enter
    \/ Residuals_WriteValues
    \/ Residuals_EnforceEquality
    \/ Residuals_Persist
    \/ Residuals_RemoveOutputs
    \/ Xyce_Start
    \/ Xyce_Missing
    \/ Xyce_Exit
    \/ Residuals_Finish
    \/ LeastSquares_Next
    \/ LeastSquares_Raise
    \/ LeastSquares_Return
    \/ CF_Except
    \/ CF_Finally

Spec == Init /\ [][Next]_vars

\* Every step of a run is a synchronous piece of code that runs to its end
\* (the simulator call blocks until the process exits, the solver stops
\* after finitely many evaluations), so a run that can step does step.
LiveArgs ==
    [analysis : {Analysis("transient", "magnitude", TRUE)},
     parts : {<<PartConstraint("R2", "=", Quot(100, "R1"))>>},
     nodes : NodeLists,
     selectedParameters : {{"R1"}},
     RLCBounds : {<<FALSE, FALSE, FALSE>>}]

InitLive == InitRun(LiveArgs, {{}})

LiveSpec == InitLive /\ [][Next]_vars /\ WF_vars(Next)

\* -------------------------------------------------------------------------
\* Runs on a netlist object whose file path may differ from the netlistPath
\* argument of optimizeProcess
\* -------------------------------------------------------------------------
DriverArgs ==
    [analysis : {Analysis("transient", "magnitude", TRUE), Analysis("noise", "onoise", FALSE)},
     parts : {<<>>, <<PartConstraint("R2", "=", Quot(100, "R1"))>>},
     nodes : NodeLists,
     selectedParameters : {{"R1"}},
     RLCBounds : {<<FALSE, FALSE, FALSE>>}]

InitDriver ==
    /\ InitStateAt(DriverArgs, {{}}, {ORIG_NETLIST_PATH, MovedNetlistPath})
    /\ call = None
    /\ ret = None

SpecDriver == InitDriver /\ [][Next]_vars

\* -------------------------------------------------------------------------
\* Runs interleaved with next-session queries of other callers
\* -------------------------------------------------------------------------
QueryArgs ==
    [analysis : {Analysis("transient", "magnitude", TRUE)},
     parts : {<<>>},
     nodes : NodeLists,
     selectedParameters : {{"R1"}},
     RLCBounds : {<<FALSE, FALSE, FALSE>>}]

InitQuery == InitRun(QueryArgs, {{}, {1}, {2}, 1..10})

NextQuery == Next \/ Query

SpecQuery == InitQuery /\ [][NextQuery]_vars

\* -------------------------------------------------------------------------
\* The node-constraint check applied on its own to every input of a
\* bounded family: add_node_constraints on a constraint list, then the loop
\* of residuals on a result table.
\* -------------------------------------------------------------------------
NodeConstraintPool ==
    {NodeConstraint("N2", op, 10, xmin, xmax) :
        op \in {">=", "<=", "="}, xmin \in {None, Some(1)}, xmax \in {None, Some(0), Some(1)}}

NodeConstraintInputs ==
    {<<c>> : c \in NodeConstraintPool}
    \cup {<<c, d>> : c \in NodeConstraintPool,
                     d \in {NodeConstraint("OUT", "<=", 10, None, None),
                            NodeConstraint("N2", ">=", 10, Some(1), None)}}

TableInputs ==
    {[headers |-> AllHeaders, rows |-> <<Row(0, o, a), Row(g, 4, b)>>] :
        o \in {4, 100}, g \in {1, 2}, a \in {1, 10, 100}, b \in {1, 10, 100}}

InitNode ==
    /\ InitState(QueryArgs, {{}})
    /\ entry = "direct"
    /\ ret = None
    /\ call \in {Some([constraints |-> c, analysis |-> a, table |-> tbl]) :
                   c \in NodeConstraintInputs,
                   a \in {Analysis("transient", "magnitude", TRUE),
                          Analysis("ac", "magnitude_db", TRUE)},
                   tbl \in TableInputs}

Apply_NodeConstraints ==
    /\ call # None /\ ret = None
    /\ ret' = Some([formatted |-> add_node_constraints(TheValue(call).constraints,
                                                        TheValue(call).analysis),
                    check |-> NodeConstraintCheck(
                                  add_node_constraints(TheValue(call).constraints,
                                                       TheValue(call).analysis),
                                  TheValue(call).table, TheValue(call).analysis)])
    /\ UNCHANGED <<inputVars, pc, netlistVars, driverVars, fsVars, queue, lastQuery,
                   xyceRuns, invocations, simulator, sessionVars, raised, call>>

SpecNode == InitNode /\ [][Apply_NodeConstraints]_vars

\* -------------------------------------------------------------------------
\* netlist_parse.py on files given as sequences of lines, a line being the
\* sequence of its whitespace-separated tokens (<<>> is a blank line, a
\* first token "*" a comment, a first token "+" a continuation).
\* -------------------------------------------------------------------------
\* str.upper() on the tokens of the files explored.
Upper(tok) ==
    CASE tok = ".ends" -> ".ENDS"
      [] tok = "let"   -> "LET"
      [] tok = "run"   -> "RUN"
      [] tok = "v(2)"  -> "V(2)"
      [] tok = "lin"   -> "LIN"
      [] tok = "weird" -> "WEIRD"
      [] OTHER         -> tok

\* tokens[0][0].upper() on the first tokens of the files explored.
LeadingChar(tok) ==
    CASE tok \in {"R1", "R2", "R7", "R8", "R9", "run"} -> "R"
      [] tok = "let" -> "L"
      [] tok = "V1"  -> "V"
      [] tok = "X1"  -> "X"
      [] OTHER       -> "."

\* The numbers written as value tokens in the files explored.
NumberTokens ==
    ("1k" :> 1000) @@ ("50" :> 50) @@ ("5" :> 5) @@ ("1000.0" :> 1000) @@ ("50.0" :> 50)
    @@ ("5.0" :> 5) @@ ("200.0" :> 200)

\* _convert_value: the number a value token denotes, None when it is none.
_convert_value(value_str) ==
    IF value_str \in DOMAIN NumberTokens THEN Some(NumberTokens[value_str]) ELSE None

\* "%s" % float(str(value)): the text of a float.
FloatText(value) ==
    CASE value = 1000 -> "1000.0"
      [] value = 50   -> "50.0"
      [] value = 5    -> "5.0"
      [] value = 200  -> "200.0"

ParsedComponent(name, type, value) ==
    [name |-> name, type |-> type, value |-> value, modified |-> FALSE]

\* process_line: one logical line; st holds components, nodes and
\* subckt_stack.
process_line(st, tokens) ==
    IF tokens = <<>> \/ tokens[1] \in {"*", ";"} THEN st
    ELSE
    LET keyword == Upper(tokens[1])
        scope == IF st.subckt_stack # <<>> THEN Last(st.subckt_stack) ELSE "top"
        leading_char == LeadingChar(tokens[1])
        n == Len(tokens)
        WithNodes(t, idx) == [t EXCEPT !.nodes = @ \cup {tokens[i] : i \in idx}]
    IN
    IF keyword = ".SUBCKT"
    THEN [st EXCEPT !.subckt_stack = Append(@, IF n > 1 THEN tokens[2] ELSE "")]
    ELSE IF keyword = ".ENDS"
    THEN [st EXCEPT !.subckt_stack = IF @ # <<>> THEN SubSeq(@, 1, Len(@) - 1) ELSE @]
    ELSE IF keyword \in {".INCLUDE", ".INC", ".LIB"} THEN st
    ELSE IF keyword = ".MODEL" /\ n >= 3 THEN st
    ELSE IF keyword \in {".PARAM", ".PARAMS"} /\ n > 1 THEN st
    ELSE IF scope # "top" THEN st
    ELSE IF leading_char = "X" /\ n > 2 THEN WithNodes(st, 2..(n - 1))
    ELSE IF leading_char = "A" /\ n >= 9 THEN WithNodes(st, 2..9)
    ELSE IF leading_char \in {"B", "C", "D", "F", "H", "I", "L", "R", "V", "W"}
    THEN IF leading_char \in {"R", "L", "C"} /\ n >= 4
         THEN IF _convert_value(tokens[4]) = None THEN st
              ELSE WithNodes([st EXCEPT !.components =
                                 Append(@, ParsedComponent(tokens[1], leading_char,
                                                           TheValue(_convert_value(tokens[4]))))],
                             {2, 3})
         ELSE IF leading_char \in {"V", "I"}
         THEN LET raw_value == IF n >= 4 THEN tokens[4] ELSE tokens[n]
                  value == IF _convert_value(raw_value) = None THEN 0
                           ELSE TheValue(_convert_value(raw_value))
              IN  WithNodes([st EXCEPT !.components =
                                Append(@, ParsedComponent(tokens[1], leading_char, value))],
                            IF n >= 3 THEN {2, 3} ELSE {})
         ELSE WithNodes(st, IF n >= 3 THEN {2, 3} ELSE {})
    ELSE IF leading_char \in {"J", "Q", "U", "Z"} /\ n >= 4 THEN WithNodes(st, 2..4)
    ELSE IF leading_char \in {"E", "G", "M", "O", "S", "T"} /\ n >= 5 THEN WithNodes(st, 2..5)
    ELSE st

\* Lines 146-160: the loop over the raw lines, which joins continuation
\* lines to the pending line.
RECURSIVE ParseFrom(_, _, _, _)
ParseFrom(lines, i, st, pending_line) ==
    IF i > Len(lines)
    THEN IF pending_line # <<>> THEN process_line(st, pending_line) ELSE st
    ELSE IF lines[i] = <<>> THEN ParseFrom(lines, i + 1, st, pending_line)
    ELSE IF lines[i][1] = "+" /\ pending_line # <<>>
    THEN ParseFrom(lines, i + 1, st, pending_line \o Tail(lines[i]))
    ELSE ParseFrom(lines, i + 1,
                   IF pending_line # <<>> THEN process_line(st, pending_line) ELSE st,
                   lines[i])

parse_file(lines) ==
    ParseFrom(lines, 1, [components |-> <<>>, nodes |-> {}, subckt_stack |-> <<>>], <<>>)

\* Lines 173-177 of class_to_file: the components flagged modified, as
\* positions in the component list.
ModifiedComponents(components) ==
    SelectSeq([i \in 1..Len(components) |-> i], LAMBDA i : components[i].modified)

RemoveAt(seq, k) == SubSeq(seq, 1, k - 1) \o SubSeq(seq, k + 1, Len(seq))

\* Lines 179-204 of class_to_file: the loop over the lines of the file.
RECURSIVE RewriteFrom(_, _, _, _, _, _)
RewriteFrom(data, i, modified_components, ctrl, components, updated_lines) ==
    IF i > Len(data) THEN updated_lines
    ELSE IF data[i] = <<>>
    THEN RewriteFrom(data, i + 1, modified_components, ctrl, components, updated_lines)
    ELSE
    LET tokens == data[i]
        token_upper == Upper(tokens[1])
        ctrl_now == IF token_upper = ".ENDC" THEN FALSE
                    ELSE IF token_upper = ".CONTROL" THEN TRUE ELSE ctrl
        hits == {k \in 1..Len(modified_components) :
                    tokens[1] = components[modified_components[k]].name /\ Len(tokens) >= 4}
    IN
    IF ctrl_now
    THEN RewriteFrom(data, i + 1, modified_components, ctrl_now, components, updated_lines)
    ELSE IF hits = {}
    THEN RewriteFrom(data, i + 1, modified_components, ctrl_now, components,
                     Append(updated_lines, tokens))
    ELSE LET k == CHOOSE h \in hits : \A other \in hits : h <= other
             line == <<tokens[1], tokens[2], tokens[3],
                       FloatText(components[modified_components[k]].value)>>
         IN  RewriteFrom(data, i + 1, RemoveAt(modified_components, k), ctrl_now, components,
                         Append(updated_lines, line))

\* Netlist.class_to_file on an existing file: the lines written and the
\* component list with the flags cleared.
class_to_file(data, components) ==
    [lines |-> RewriteFrom(data, 1, ModifiedComponents(components), FALSE, components, <<>>),
     components |-> [i \in 1..Len(components) |-> [components[i] EXCEPT !.modified = FALSE]]]

\* The filter loop of the directive writers: blank lines, analysis
\* statements and .PRINT statements are dropped.
filtered_lines(data) ==
    SelectSeq(data, LAMBDA line :
        line # <<>> /\ Upper(line[1]) \notin {".TRAN", ".AC", ".NOISE", ".PRINT"})

RECURSIVE FindInsertFrom(_, _, _)
FindInsertFrom(lines, index, subckt_depth) ==
    IF index > Len(lines) THEN Len(lines) + 1
    ELSE IF lines[index] = <<>> THEN FindInsertFrom(lines, index + 1, subckt_depth)
    ELSE
    LET keyword == Upper(lines[index][1]) IN
    IF keyword = ".SUBCKT" THEN FindInsertFrom(lines, index + 1, subckt_depth + 1)
    ELSE IF keyword = ".ENDS" /\ subckt_depth > 0
    THEN FindInsertFrom(lines, index + 1, subckt_depth - 1)
    ELSE IF subckt_depth > 0 THEN FindInsertFrom(lines, index + 1, subckt_depth)
    ELSE IF lines[index][1] = "*" THEN FindInsertFrom(lines, index + 1, subckt_depth)
    ELSE IF keyword \in {".TITLE", ".OPTIONS", ".PARAM", ".INCLUDE", ".INC", ".LIB"}
    THEN FindInsertFrom(lines, index + 1, subckt_depth)
    ELSE index

\* An insertion point at the top of the file.
_find_analysis_insert_index_Top(lines) == 1

\* _find_analysis_insert_index: the position (from 1) of the first line
\* that is not a header line and not inside a subcircuit block.
_find_analysis_insert_index(lines) == FindInsertFrom(lines, 1, 0)

\* list.insert of the analysis line and of the .PRINT line after it.
InsertCommands(lines, analysis_line, print_line) ==
    LET insertion_index == _find_analysis_insert_index(lines) IN
    SubSeq(lines, 1, insertion_index - 1) \o <<analysis_line, print_line>>
    \o SubSeq(lines, insertion_index, Len(lines))

\* What a directive writer leaves: the lines of the file and the exception
\* that reaches the caller (None: the call returns normally).
Written(lines) == [lines |-> lines, wrote |-> TRUE, exception |-> None]

\* The except branches of the writers print the error and return.
Caught(data) == [lines |-> data, wrote |-> FALSE, exception |-> None]

writeTranCmdsToFile(data, target_node, constrained_nodes) ==
    Written(InsertCommands(filtered_lines(data),
                           <<".TRAN", "1e-05s", "0.002s", "0s", "1e-05s">>,
                           <<".PRINT", "TRAN", target_node>> \o constrained_nodes))

\* (sweep_type or "DEC").upper(), replaced by DEC when it is no sweep type.
SweepOf(sweep_type) ==
    LET sweep == IF sweep_type = "" THEN "DEC" ELSE Upper(sweep_type) IN
    IF sweep \in {"DEC", "LIN", "OCT"} THEN sweep ELSE "DEC"

\* Lines 343-353 of writeAcCmdsToFile: the non-empty print variables
\* without repetitions (compared in upper case).
RECURSIVE OrderedFrom(_, _, _, _)
OrderedFrom(print_variables, i, seen, ordered_variables) ==
    IF i > Len(print_variables) THEN ordered_variables
    ELSE IF print_variables[i] = "" \/ Upper(print_variables[i]) \in seen
    THEN OrderedFrom(print_variables, i + 1, seen, ordered_variables)
    ELSE OrderedFrom(print_variables, i + 1, seen \cup {Upper(print_variables[i])},
                     Append(ordered_variables, print_variables[i]))

writeAcCmdsToFile(data, sweep_type, print_variables) ==
    Written(InsertCommands(filtered_lines(data),
                           <<".AC", SweepOf(sweep_type), "10", "1", "1k">>,
                           <<".PRINT", "AC">> \o OrderedFrom(print_variables, 1, {}, <<>>)))

writeNoiseCmdsToFile(data, sweep_type, output_expression, input_source) ==
    IF output_expression = "" \/ input_source = ""
    THEN Caught(data)   \* ValueError raised at 291/294, caught at 309
    ELSE Written(InsertCommands(filtered_lines(data),
                                <<".NOISE", output_expression, input_source,
                                  SweepOf(sweep_type), "10", "1", "1k">>,
                                <<".PRINT", "NOISE", "FREQ", "ONOISE", "INOISE">>))

\* -------------------------------------------------------------------------
\* The functions of netlist_parse.py applied on their own to every file of
\* a bounded family and every argument of a bounded set.
\* -------------------------------------------------------------------------
HeaderChoices ==
    {<<>>,
     << <<"*", "divider">> >>,
     << <<".OPTIONS", "TIMEINT">>, <<>> >>}

SubcktChoices ==
    {<<>>,
     << <<".SUBCKT", "amp", "a", "b">>, <<"R1", "a", "b", "50">>, <<".ends">> >>,
     << <<".SUBCKT", "top", "a", "b">>, <<"R9", "a", "n9", "50">>, <<".ENDS">> >>,
     << <<".SUBCKT", "outer", "a", "b">>, <<".SUBCKT", "inner", "c", "d">>,
        <<"R8", "c", "n8", "50">>, <<".ENDS">>, <<"R7", "a", "n7", "5">>, <<".ENDS">> >>}

BodyChoices ==
    {<< <<"R1", "1", "2", "1k">>, <<"V1", "1", "0", "5">>, <<"R2", "2", "0", "1k">> >>,
     << <<"R1", "1", "2", "1k", "TC=1">>, <<"V1", "1", "0", "5">>, <<"X1", "2", "0", "amp">> >>,
     << <<"R1", "1", "2">>, <<"+", "1k">>, <<"V1", "1", "0", "5">> >>}

ControlChoices ==
    {<<>>,
     << <<".CONTROL">>, <<"run">>, <<"let", "r", "=", "5">>, <<".ENDC">> >>}

DirectiveChoices ==
    {<<>>,
     << <<".TRAN", "1u", "1m">>, <<".PRINT", "TRAN", "V(2)">> >>,
     << <<".AC", "DEC", "10", "1", "1k">>, <<".PRINT", "AC", "V(2)">>, <<".TRAN", "1u", "1m">> >>}

NetlistFiles ==
    {h \o sub \o b \o c \o d :
        h \in HeaderChoices, sub \in SubcktChoices, b \in BodyChoices,
        c \in ControlChoices, d \in DirectiveChoices}

\* The component lists a caller hands to class_to_file: the parsed list,
\* untouched or with one component set to 200 and flagged modified.
ComponentChoices(file) ==
    LET parsed == parse_file(file).components IN
    {parsed} \cup {[parsed EXCEPT ![k] = [@ EXCEPT !.value = 200, !.modified = TRUE]] :
                      k \in 1..Len(parsed)}

NetlistCall(op, file, components, sweep_type, names, output_expression, input_source) ==
    [op |-> op, file |-> file, components |-> components, sweep_type |-> sweep_type,
     names |-> names, output_expression |-> output_expression, input_source |-> input_source]

NetlistCalls ==
    UNION {
        {NetlistCall("parse_file", f, <<>>, "", <<>>, "", "")}
        \cup {NetlistCall("class_to_file", f, cs, "", <<>>, "", "") : cs \in ComponentChoices(f)}
        \cup {NetlistCall("writeTranCmdsToFile", f, <<>>, "", ns, "V(2)", "") :
                 ns \in {<<>>, <<"V(1)">>}}
        \cup {NetlistCall("writeAcCmdsToFile", f, <<>>, sw, ns, "", "") :
                 sw \in {"lin", "weird"},
                 ns \in {<<>>, <<"V(2)">>, <<"", "">>, <<"V(2)", "v(2)", "VM(1)">>}}
        \cup {NetlistCall("writeNoiseCmdsToFile", f, <<>>, "", <<>>, out, src) :
                 out \in {"V(2)", ""}, src \in {"V1", ""}}
        : f \in NetlistFiles}

InitNetlist ==
    /\ InitState(QueryArgs, {{}})
    /\ entry = "direct"
    /\ ret = None
    /\ call \in {Some(c) : c \in NetlistCalls}

\* The frame of an application: everything but ret keeps its value.
FunctionFrame ==
    UNCHANGED <<inputVars, pc, netlistVars, driverVars, fsVars, queue, lastQuery,
                xyceRuns, invocations, simulator, sessionVars, raised, call>>

Apply_parse_file ==
    /\ call # None /\ ret = None
    /\ TheValue(call).op = "parse_file"
    /\ ret' = Some(parse_file(TheValue(call).file))
    /\ FunctionFrame

\* class_to_file, followed by a parse of the file it wrote.
Apply_class_to_file ==
    /\ call # None /\ ret = None
    /\ TheValue(call).op = "class_to_file"
    /\ LET written == class_to_file(TheValue(call).file, TheValue(call).components) IN
       ret' = Some([lines |-> written.lines, components |-> written.components,
                    reparsed |-> parse_file(written.lines)])
    /\ FunctionFrame

\* A directive writer, followed by the same writer on the file it left.
Apply_writeTranCmdsToFile ==
    /\ call # None /\ ret = None
    /\ TheValue(call).op = "writeTranCmdsToFile"
    /\ LET in == TheValue(call)
           once == writeTranCmdsToFile(in.file, in.output_expression, in.names)
       IN  ret' = Some([once |-> once,
                        twice |-> writeTranCmdsToFile(once.lines, in.output_expression, in.names)])
    /\ FunctionFrame

Apply_writeAcCmdsToFile ==
    /\ call # None /\ ret = None
    /\ TheValue(call).op = "writeAcCmdsToFile"
    /\ LET in == TheValue(call)
           once == writeAcCmdsToFile(in.file, in.sweep_type, in.names)
       IN  ret' = Some([once |-> once,
                        twice |-> writeAcCmdsToFile(once.lines, in.sweep_type, in.names)])
    /\ FunctionFrame

Apply_writeNoiseCmdsToFile ==
    /\ call # None /\ ret = None
    /\ TheValue(call).op = "writeNoiseCmdsToFile"
    /\ LET in == TheValue(call)
           once == writeNoiseCmdsToFile(in.file, in.sweep_type, in.output_expression,
                                        in.input_source)
       IN  ret' = Some([once |-> once,
                        twice |-> writeNoiseCmdsToFile(once.lines, in.sweep_type,
                                                       in.output_expression, in.input_source)])
    /\ FunctionFrame

NextNetlist ==
    \/ Apply_parse_file
    \/ Apply_class_to_file
    \/ Apply_writeTranCmdsToFile
    \/ Apply_writeAcCmdsToFile
    \/ Apply_writeNoiseCmdsToFile

SpecNetlist == InitNetlist /\ [][NextNetlist]_vars

\* -------------------------------------------------------------------------
\* The bound preparation of optimizeProcess applied on its own: the selected
\* components become variable (lines 253-255), add_part_constraints
\* processes a list of '>=' / '<=' constraints (line 257), the default bounds
\* are assigned (lines 259-280) and curvefit_optimize builds the start vector
\* and the bound arrays of the solver (lines 221-225).
\* -------------------------------------------------------------------------
BoundValues == {50, 100, 150}

BoundConstraintPool ==
    {PartConstraint("R1", op, Lit(v)) : op \in {">=", "<="}, v \in BoundValues}
    \cup {PartConstraint("R1", ">=", Lit(0 - 1)),
          PartConstraint("R2", "<=", Lit(50)), PartConstraint("R2", ">=", Lit(5))}

BoundConstraintLists ==
    {<<>>}
    \cup {<<c>> : c \in BoundConstraintPool}
    \cup {<<c, d>> : c \in BoundConstraintPool, d \in BoundConstraintPool}

InitBounds ==
    /\ InitState(QueryArgs, {{}})
    /\ entry = "direct"
    /\ ret = None
    /\ call \in {Some([op |-> "bounds", constraints |-> cons, selectedParameters |-> sel,
                       RLCBounds |-> flags]) :
                   cons \in BoundConstraintLists,
                   sel \in {{"R1"}, {"R1", "R2"}},
                   flags \in {<<FALSE, FALSE, FALSE>>, <<TRUE, FALSE, FALSE>>}}

Apply_Bounds ==
    /\ call # None /\ ret = None
    /\ TheValue(call).op = "bounds"
    /\ LET in == TheValue(call)
           selected == SelectParameters(ParsedNetlist, in.selectedParameters)
           apc == add_part_constraints(in.constraints, selected)
           bounded == DefaultBounds(apc.comps, in.RLCBounds)
           changing == ChangingComponents(bounded)
       IN  ret' = Some([constrained |-> apc.comps,
                        bounded |-> bounded,
                        changing_components |-> changing,
                        x0 |-> [i \in 1..Len(changing) |-> bounded[changing[i]].value],
                        lower_bounds |-> lower_bounds(bounded, changing),
                        upper_bounds |-> upper_bounds(bounded, changing)])
    /\ FunctionFrame

SpecBounds == InitBounds /\ [][Apply_Bounds]_vars

\* -------------------------------------------------------------------------
\* Sessions that run concurrently in one working directory.  A session of
\* optimizeProcess probes its number (line 222), writes its working netlist
\* (lines 293-295) and calls curvefit_optimize (lines 389-405); a session of
\* a direct caller of curvefit_optimize probes its log file (line 125),
\* writes the header (lines 153-175) and later the footer (lines 528-557).
\* ret holds, per session, its position, the number its probe returned, its
\* working netlist path and its log file, and per working netlist path the
\* sessions that wrote it.
\* -------------------------------------------------------------------------
SessionKinds == <<"optimizeProcess", "optimizeProcess", "direct", "direct">>

SessionIds == DOMAIN SessionKinds

NewSession == [pc |-> "start", session_num |-> 0, writable |-> None, log |-> None]

InitSessions ==
    /\ InitState(QueryArgs, {{}, {1}})
    /\ entry = "direct"
    /\ call = Some([op |-> "sessions", kinds |-> SessionKinds])
    /\ ret = Some([sessions |-> [s \in SessionIds |-> NewSession], copies |-> <<>>])

SessionFrame ==
    UNCHANGED <<inputVars, pc, netlistVars, driverVars, netfile, outputs, queue, lastQuery,
                xyceRuns, invocations, simulator, sessionVars, raised, call>>

SessionAt(s, where) ==
    /\ call # None /\ ret # None
    /\ TheValue(call).op = "sessions"
    /\ TheValue(ret).sessions[s].pc = where

SessionStep(s, new) == ret' = Some([TheValue(ret) EXCEPT !.sessions[s] = new])

\* A probe that also passes over a number whose session directory exists.
Session_Probe_Reserved(s) ==
    /\ SessionAt(s, "start") /\ SessionKinds[s] = "optimizeProcess"
    /\ LET taken(n) == SessionLogPath(n) \in DOMAIN logs \/ DirOf(SessionLogPath(n)) \in fsDirs
           session_num == CHOOSE n \in 1..(Cardinality(DOMAIN logs) + Cardinality(fsDirs) + 1) :
                              ~taken(n) /\ \A m \in 1..(n - 1) : taken(m)
       IN
       /\ fsDirs' = fsDirs \cup {DirOf(SessionLogPath(session_num)),
                                 DirOf(WritableNetlistPath(session_num))}
       /\ SessionStep(s, [TheValue(ret).sessions[s] EXCEPT
                             !.pc = "probed", !.session_num = session_num,
                             !.writable = Some(WritableNetlistPath(session_num))])
    /\ UNCHANGED logs
    /\ SessionFrame

\* optimizeProcess lines 222-233: the session number and the working path.
Session_Probe(s) ==
    /\ SessionAt(s, "start") /\ SessionKinds[s] = "optimizeProcess"
    /\ LET session_num == get_current_session_number(DOMAIN logs) IN
       /\ fsDirs' = fsDirs \cup {DirOf(SessionLogPath(session_num)),
                                 DirOf(WritableNetlistPath(session_num))}
       /\ SessionStep(s, [TheValue(ret).sessions[s] EXCEPT
                             !.pc = "probed", !.session_num = session_num,
                             !.writable = Some(WritableNetlistPath(session_num))])
    /\ UNCHANGED logs
    /\ SessionFrame

\* optimizeProcess lines 293-295: the working netlist is written.
Session_Copy(s) ==
    /\ SessionAt(s, "probed") /\ SessionKinds[s] = "optimizeProcess"
    /\ LET path == TheValue(TheValue(ret).sessions[s].writable)
           copies == TheValue(ret).copies
       IN  ret' = Some([sessions |-> [TheValue(ret).sessions EXCEPT ![s].pc = "copied"],
                        copies |-> [q \in DOMAIN copies \cup {path} |->
                                       IF q = path
                                       THEN (IF q \in DOMAIN copies THEN copies[q] ELSE {}) \cup {s}
                                       ELSE copies[q]]])
    /\ UNCHANGED <<fsDirs, logs>>
    /\ SessionFrame

\* optimizeProcess lines 389-434: the call of curvefit_optimize does not
\* bind and the session ends in the except branch.
Session_Call(s) ==
    /\ SessionAt(s, "copied") /\ SessionKinds[s] = "optimizeProcess"
    /\ ~CallBinds
    /\ SessionStep(s, [TheValue(ret).sessions[s] EXCEPT !.pc = "done"])
    /\ UNCHANGED <<fsDirs, logs>>
    /\ SessionFrame

\* curvefit_optimize line 125: the log file of the session.
Session_LogProbe(s) ==
    /\ SessionAt(s, "start") /\ SessionKinds[s] = "direct"
    /\ LET log_file == get_session_log_file(DOMAIN logs) IN
       /\ fsDirs' = fsDirs \cup {DirOf(log_file)}
       /\ SessionStep(s, [TheValue(ret).sessions[s] EXCEPT
                             !.pc = "probed", !.session_num = log_file.n,
                             !.log = Some(log_file)])
    /\ UNCHANGED logs
    /\ SessionFrame

\* log_to_file: the entry is appended, the file is created when absent.
LogToFile(ls, file, message) ==
    [q \in DOMAIN ls \cup {file} |->
        IF q = file THEN (IF q \in DOMAIN ls THEN ls[q] ELSE <<>>) \o <<message>> ELSE ls[q]]

\* curvefit_optimize lines 153-175: the header of the session log.
Session_Header(s) ==
    /\ SessionAt(s, "probed") /\ SessionKinds[s] = "direct"
    /\ logs' = LogToFile(logs, TheValue(TheValue(ret).sessions[s].log),
                         [t |-> "HEADER", session |-> s])
    /\ SessionStep(s, [TheValue(ret).sessions[s] EXCEPT !.pc = "header"])
    /\ UNCHANGED fsDirs
    /\ SessionFrame

\* curvefit_optimize lines 528-557: the footer of the session log.
Session_Footer(s) ==
    /\ SessionAt(s, "header") /\ SessionKinds[s] = "direct"
    /\ logs' = LogToFile(logs, TheValue(TheValue(ret).sessions[s].log),
                         [t |-> "END", session |-> s])
    /\ SessionStep(s, [TheValue(ret).sessions[s] EXCEPT !.pc = "done"])
    /\ UNCHANGED fsDirs
    /\ SessionFrame

NextSessions ==
    \E s \in SessionIds :
        \/ Session_Probe(s)
        \/ Session_Copy(s)
        \/ Session_Call(s)
        \/ Session_LogProbe(s)
        \/ Session_Header(s)
        \/ Session_Footer(s)

SpecSessions == InitSessions /\ [][NextSessions]_vars

\* -------------------------------------------------------------------------
\* frontend/parameter_selection.py: ParameterSelectionWindow.  call holds
\* the netlist (its components in file order) and the persisted selection,
\* ret the window: the two parameter lists, the two list boxes as shown, the
\* sources, the variable flag of every component and the Continue button.
\* -------------------------------------------------------------------------
\* sorted() on the names of the netlists explored (string order).
NameOrder == <<"C1", "GONE", "I1", "ILOAD", "R1", "R2", "V1", "VREF">>

RECURSIVE SortedFrom(_, _)
SortedFrom(names, k) ==
    IF k > Len(NameOrder) THEN <<>>
    ELSE SelectSeq(names, LAMBDA e : e = NameOrder[k]) \o SortedFrom(names, k + 1)

Sorted(names) == SortedFrom(names, 1)

NetlistComponent(name, type) == [name |-> name, type |-> type, scope |-> "top"]

\* A source that counts only voltage sources.
_is_source_component_VoltageOnly(component) == component.type \in {"V"}

\* _is_source_component: type V or I.
_is_source_component(component) == component.type \in {"V", "I"}

\* The first component with this name (the loops that end with break).
ComponentNamed(components, name) ==
    components[CHOOSE k \in 1..Len(components) :
                  /\ components[k].name = name
                  /\ \A j \in 1..(k - 1) : components[j].name # name]

ComponentNames(components) == {components[k].name : k \in 1..Len(components)}

\* _extract_source_components: the names of the sources, in order.
_extract_source_components(components) ==
    LET sources == SelectSeq(components, _is_source_component)
    IN  [k \in 1..Len(sources) |-> sources[k].name]

\* __init__ lines 26-45: the persisted selection, filtered.
FilterPersisted(components, persisted_selected) ==
    SelectSeq(persisted_selected,
              LAMBDA name : /\ name \in ComponentNames(components)
                            /\ ~_is_source_component(ComponentNamed(components, name)))

\* load_and_parse_parameters lines 183-189: the available parameters.
AvailableOf(components) ==
    LET kept == SelectSeq(components,
                          LAMBDA c : c.scope = "top" /\ ~_is_source_component(c))
    IN  [k \in 1..Len(kept) |-> kept[k].name]

\* list.remove: the first occurrence is removed.
RemoveFirst(names, name) ==
    RemoveAt(names, CHOOSE k \in 1..Len(names) :
                        names[k] = name /\ \A j \in 1..(k - 1) : names[j] # name)

\* __init__ with load_and_parse_parameters: the window as constructed.
NewWindow(components, persisted_selected) ==
    [available_parameters |-> AvailableOf(components),
     selected_parameters |-> FilterPersisted(components, persisted_selected),
     available_listbox |-> Sorted(AvailableOf(components)),
     selected_listbox |-> <<>>,
     sources |-> _extract_source_components(components),
     variable |-> [n \in ComponentNames(components) |-> FALSE],
     continue_button |-> "disabled"]

\* add_parameters: the loop over the indices taken from the available list
\* box, highest first.
RECURSIVE AddParametersFrom(_, _)
AddParametersFrom(w, indices) ==
    IF indices = {} THEN w
    ELSE LET i == CHOOSE k \in indices : \A j \in indices : j <= k
             param == w.available_listbox[i]
             moved == IF param \in Range(w.selected_parameters) THEN w
                      ELSE [w EXCEPT !.selected_parameters = Append(@, param),
                                     !.available_parameters = RemoveFirst(@, param),
                                     !.variable[param] = TRUE]
         IN  AddParametersFrom([moved EXCEPT !.available_listbox = RemoveAt(@, i)],
                               indices \ {i})

add_parameters(w, indices) ==
    LET added == AddParametersFrom(w, indices)
    IN  [added EXCEPT !.selected_listbox = Sorted(added.selected_parameters),
                      !.continue_button = IF added.selected_parameters # <<>>
                                          THEN "normal" ELSE @]

\* remove_parameters: the loop over the indices taken from the selected list
\* box, highest first; each index is popped from selected_parameters.
RECURSIVE RemoveParametersFrom(_, _)
RemoveParametersFrom(w, indices) ==
    IF indices = {} THEN w
    ELSE LET i == CHOOSE k \in indices : \A j \in indices : j <= k
             param == w.selected_parameters[i]
         IN  RemoveParametersFrom(
                 [w EXCEPT !.selected_parameters = RemoveAt(@, i),
                           !.available_parameters = Append(@, param),
                           !.available_listbox = Append(@, param),
                           !.variable[param] = FALSE],
                 indices \ {i})

remove_parameters(w, indices) ==
    LET removed == RemoveParametersFrom(w, indices)
    IN  [removed EXCEPT !.selected_listbox = Sorted(removed.selected_parameters),
                        !.continue_button = IF removed.selected_parameters = <<>>
                                            THEN "disabled" ELSE @]

\* select_all_parameters: the loop over a copy of available_parameters.
RECURSIVE SelectAllFrom(_, _, _)
SelectAllFrom(w, params, k) ==
    IF k > Len(params) THEN w
    ELSE SelectAllFrom(IF params[k] \in Range(w.selected_parameters) THEN w
                       ELSE [w EXCEPT !.selected_parameters = Append(@, params[k]),
                                      !.variable[params[k]] = TRUE],
                       params, k + 1)

select_all_parameters(w) ==
    LET selected == SelectAllFrom(w, w.available_parameters, 1)
    IN  [selected EXCEPT !.available_parameters = <<>>,
                         !.available_listbox = <<>>,
                         !.selected_listbox = Sorted(selected.selected_parameters),
                         !.continue_button = IF selected.selected_parameters # <<>>
                                             THEN "normal" ELSE @]

\* remove_all_parameters: the loop over a copy of selected_parameters.
RECURSIVE RemoveAllFrom(_, _, _)
RemoveAllFrom(w, params, k) ==
    IF k > Len(params) THEN w
    ELSE RemoveAllFrom([w EXCEPT !.available_parameters = Append(@, params[k]),
                                 !.variable[params[k]] = FALSE],
                       params, k + 1)

remove_all_parameters(w) ==
    LET removed == RemoveAllFrom(w, w.selected_parameters, 1)
    IN  [removed EXCEPT !.selected_parameters = <<>>,
                        !.available_listbox = Sorted(removed.available_parameters),
                        !.selected_listbox = <<>>,
                        !.continue_button = "disabled"]

\* The netlists and the persisted selections of the windows explored.
WindowNetlists ==
    {<<NetlistComponent("VREF", "R"), NetlistComponent("ILOAD", "C"),
       NetlistComponent("V1", "V"), NetlistComponent("I1", "I")>>,
     <<NetlistComponent("V1", "V"), NetlistComponent("R1", "R"),
       NetlistComponent("R2", "R"), NetlistComponent("C1", "C")>>}

PersistedSelections ==
    {<<>>, <<"R1">>, <<"R2", "R1">>, <<"VREF", "ILOAD", "V1", "I1">>, <<"V1", "GONE", "C1">>}

InitWindow ==
    /\ InitState(QueryArgs, {{}})
    /\ entry = "direct"
    /\ ret = None
    /\ call \in {Some([op |-> "window", components |-> cs, persisted |-> sel]) :
                   cs \in WindowNetlists, sel \in PersistedSelections}

WindowOpen == call # None /\ ret # None /\ TheValue(call).op = "window"

Window_Init ==
    /\ call # None /\ ret = None
    /\ TheValue(call).op = "window"
    /\ ret' = Some(NewWindow(TheValue(call).components, TheValue(call).persisted))
    /\ FunctionFrame

Window_add_parameters ==
    /\ WindowOpen
    /\ \E indices \in SUBSET (1..Len(TheValue(ret).available_listbox)) :
          ret' = Some(add_parameters(TheValue(ret), indices))
    /\ FunctionFrame

Window_remove_parameters ==
    /\ WindowOpen
    /\ \E indices \in SUBSET (1..Len(TheValue(ret).selected_listbox)) :
          ret' = Some(remove_parameters(TheValue(ret), indices))
    /\ FunctionFrame

Window_select_all_parameters ==
    /\ WindowOpen
    /\ ret' = Some(select_all_parameters(TheValue(ret)))
    /\ FunctionFrame

Window_remove_all_parameters ==
    /\ WindowOpen
    /\ ret' = Some(remove_all_parameters(TheValue(ret)))
    /\ FunctionFrame

NextWindow ==
    \/ Window_Init
    \/ Window_add_parameters
    \/ Window_remove_parameters
    \/ Window_select_all_parameters
    \/ Window_remove_all_parameters

SpecWindow == InitWindow /\ [][NextWindow]_vars

\* =========================================================================
\* Properties
\* =========================================================================
Tags == {queue[i].tag : i \in 1..Len(queue)}

\* A sample (row) lies in the x-range of a node constraint.
InWindow(row, c) ==
    /\ (c.x_min = None \/ row.x >= TheValue(c.x_min))
    /\ (c.x_max = None \/ row.x <= TheValue(c.x_max))

\* The sample of the constrained observable in a row, in the unit of the
\* session (dB for a voltage magnitude of an AC magnitude_db session).
SampleOf(row, c, analysis) ==
    IF analysis.mode = "ac" /\ analysis.response = "magnitude_db"
    THEN _convert_array_to_db(row[c.left])
    ELSE row[c.left]

\* A sample is below the lower or above the upper bound of a node constraint.
OutOfBounds(v, c) ==
    \/ (c.operator \in {">=", "="} /\ v < c.right)
    \/ (c.operator \in {"<=", "="} /\ v > c.right)

\* C1: an evaluation is penalized if and only if, for some node-constraint
\* window, some sample of its observable whose x lies in [xmin, xmax]
\* (inclusive) is below lower or above upper; samples outside the window and
\* windows without a sample never penalize.
C1_WindowPenalty ==
    ret # None =>
        LET in == TheValue(call) IN
        (TheValue(ret).check = "penalty") <=>
            \E i \in 1..Len(in.constraints), j \in 1..Len(in.table.rows) :
                /\ InWindow(in.table.rows[j], in.constraints[i])
                /\ OutOfBounds(SampleOf(in.table.rows[j], in.constraints[i], in.analysis),
                               in.constraints[i])

\* A penalized evaluation whose tables also hold an out-of-bound sample
\* outside a bounded window.
C1_Witness ==
    /\ ret # None
    /\ TheValue(ret).check = "penalty"
    /\ \E i \in 1..Len(TheValue(call).constraints), j \in 1..Len(TheValue(call).table.rows) :
          /\ ~InWindow(TheValue(call).table.rows[j], TheValue(call).constraints[i])
          /\ OutOfBounds(SampleOf(TheValue(call).table.rows[j], TheValue(call).constraints[i],
                                  TheValue(call).analysis),
                         TheValue(call).constraints[i])

\* C2: an '=' parameter constraint sets its left component to the value of
\* the right-hand expression over the current component values (R1 = 100,
\* "R1*2" gives R2 = 200) and makes it non-variable; the component stays
\* non-variable and is never in the solver's parameter vector afterwards.
C2_EqualityFixesComponent ==
    \A i \in 1..Len(EQUALITY_PART_CONSTRAINTS) :
        LET c == EQUALITY_PART_CONSTRAINTS[i] IN
        /\ ~comps[c.left].variable
        /\ c.left \notin Range(changing_components)
        /\ pc \in {"op_call", "cf_begin", "least_squares"} =>
              /\ comps[c.left].value = Eval(c.right, ComponentVals(comps)).v
              /\ (c.right = Mul("R1", 2) /\ comps["R1"].value = 100) => comps[c.left].value = 200

C2_Witness ==
    /\ pc = "ls_step"
    /\ xyceRuns >= 2
    /\ EQUALITY_PART_CONSTRAINTS # <<>>
    /\ EQUALITY_PART_CONSTRAINTS[1].left \in args.selectedParameters

\* C3: after every residual evaluation, for every equality constraint, the
\* left component's value equals the right-hand expression evaluated over
\* the component values of the working model as persisted for that
\* evaluation.
C3_EqualityHoldsAfterEvaluation ==
    pc \in {"remove", "xyce", "running", "parse", "ls_step"} =>
        \A i \in 1..Len(EQUALITY_PART_CONSTRAINTS) :
            LET c == EQUALITY_PART_CONSTRAINTS[i] IN
            /\ Eval(c.right, ComponentVals(comps)).ok
            /\ comps[c.left].value = Eval(c.right, ComponentVals(comps)).v
            /\ netfile[c.left] = Eval(c.right, netfile).v

\* C4: a next-session query returns the smallest n >= 1 for which
\* runs/<n>/session.log does not exist; it creates the session directory
\* but no log, so the same query repeated at once returns the same number.
C4_NextSessionQuery ==
    [][Query =>
        /\ lastQuery' >= 1
        /\ SessionLogPath(lastQuery') \notin DOMAIN logs
        /\ \A m \in 1..(lastQuery' - 1) : SessionLogPath(m) \in DOMAIN logs
        /\ DirOf(SessionLogPath(lastQuery')) \in fsDirs'
        /\ logs' = logs
        /\ get_current_session_number(DOMAIN logs') = lastQuery']_vars

\* The query answered 2 after this run created the log of session 1.
C4_Witness ==
    /\ lastQuery = 2
    /\ session_log_file = Some(SessionLogPath(1))

\* The directory runs/<group>/<n>/ of session n.
GroupedSessionDir(n) == Path("runs", GroupFolder(n), n, "")

\* C5: the session log and the working netlist copy of session n both lie
\* in runs/<group>/<n>/, <group> being the decade bucket of n.
C5_ArtifactsSideBySide ==
    /\ session_log_file # None =>
          DirOf(TheLog) = GroupedSessionDir(TheLog.n)
    /\ (entry = "optimizeProcess" /\ writable # None) =>
          DirOf(TheValue(writable)) = GroupedSessionDir(TheValue(writable).n)

\* C6: when no result file can be resolved after a simulator invocation,
\* the observer channel receives ("Failed", message) and no ("Done", ...).
C6_MissingOutputFails ==
    (pc = "done" /\ raised = "output_resolution") =>
        ("Failed" \in Tags /\ "Done" \notin Tags)

\* Places where the preparation, a residual evaluation or the solver raise.
RunErrors ==
    {"constraint_eval", "noise_settings", "infeasible_start", "simulator_start",
     "output_resolution", "header_resolution", "interpolation", "solver"}

\* C7: a run of optimizeProcess in which nothing raises in the preparation,
\* the evaluations or the solver emits ("UpdateNetlist", netlist) followed
\* by ("UpdateOptimizationResults", result) after all Log/Update/UpdateYData
\* messages of the evaluations, and emits no ("Failed", ...).
C7_CompletionMessages ==
    (entry = "optimizeProcess" /\ pc = "done" /\ raised \notin RunErrors) =>
        /\ "Failed" \notin Tags
        /\ \E i \in 1..(Len(queue) - 1) :
              /\ queue[i].tag = "UpdateNetlist"
              /\ queue[i + 1].tag = "UpdateOptimizationResults"
              /\ \A j \in 1..(i - 1) : queue[j].tag \in {"Log", "Update", "UpdateYData"}

\* C8: curvefit_optimize always returns the 5-element result [invocation
\* count, iterations, initial cost, final cost, optimality]; when anything
\* raised inside the optimize loop the exception does not reach the caller
\* and the last four elements are the zero defaults.
C8_AlwaysFiveElements ==
    /\ (pc = "done" /\ session_log_file # None) =>
          /\ result # None
          /\ Len(TheValue(result)) = 5
          /\ TheValue(result)[1] = xyceRuns
          /\ raised # "none" => \A i \in 2..5 : TheValue(result)[i] = 0
    /\ (session_log_file # None /\ raised # "none") => pc \in {"cf_except", "cf_finally", "done"}

C8_Witness ==
    /\ pc = "done"
    /\ raised = "header_resolution"
    /\ result # None
    /\ xyceRuns >= 2

\* The session log ends with the metrics block, the run details and the
\* END line.
FooterWritten ==
    /\ session_log_file # None
    /\ LET log == logs[TheLog] IN
       /\ Last(log).t = "END"
       /\ \E k \in 1..Len(log) :
             /\ log[k].t = "METRICS"
             /\ \A j \in (k + 1)..(Len(log) - 1) : log[j].t \in {"DETAILS", "RUN"}

\* C9: every session whose header has been written eventually gets the
\* footer (metrics block, then END OF OPTIMIZATION SESSION), whether the
\* optimization succeeded or raised inside the loop.
C9_FooterEventually == (session_log_file # None) ~> FooterWritten

C9_Witness == FooterWritten /\ raised = "constraint_eval" /\ xyceRuns >= 2

\* The RUN entries of the session log, in order.
PersistedRuns == SelectSeq(logs[TheLog], LAMBDA e : e.t = "RUN")

\* C10: the session log holds verbatim exactly the run records of the last
\* min(3, k) of the k recorded evaluations, in order, each labelled with the
\* run number its own first line carries.
C10_LastThreeRuns ==
    result # None =>
        LET k == Len(all_run_results)
            m == IF k < 3 THEN k ELSE 3
        IN  /\ Len(PersistedRuns) = m
            /\ \A i \in 1..m :
                  /\ PersistedRuns[i].lines = all_run_results[k - m + i]
                  /\ PersistedRuns[i].label = PersistedRuns[i].lines[1].run

C10_Witness == result # None /\ Len(all_run_results) >= 4

\* C11: in every residual evaluation the result file that is resolved and
\* parsed was written by the current simulator invocation, whatever files
\* earlier invocations left next to the working netlist (files only the
\* "<netlist>*.prn" glob matches included); if the current invocation wrote
\* none, resolution raises.
C11_NoStaleOutput ==
    (pc \in {"ls_step", "cf_except"} /\ run_info # <<>> /\ invocations = xyceRuns
        /\ raised \in {"none", "header_resolution", "output_resolution", "interpolation"}) =>
        /\ Last(run_info).l = "parse" =>
              outputs[Last(run_info).file].mtime = invocations
        /\ (\A f \in DOMAIN outputs : outputs[f].mtime # invocations) =>
              raised = "output_resolution"

\* C12: within every residual evaluation the steps occur in this order:
\* solver values written into the model, equality constraints re-applied,
\* working netlist persisted, stale result files deleted, simulator invoked,
\* output resolved; no write to the working netlist occurs between the start
\* of a simulator invocation and its return, and at most one invocation is in
\* flight.
C12_StepOrder ==
    [][/\ pc = "residuals" =>
             /\ pc' = "enforce"
             /\ \A i \in 1..Len(x) : comps'[changing_components[i]].value = x[i]
             /\ netfile' = netfile /\ outputs' = outputs /\ simulator' = simulator
       /\ pc = "enforce" =>
             /\ pc' \in {"persist", "cf_except"}
             /\ netfile' = netfile /\ outputs' = outputs /\ simulator' = simulator
       /\ pc = "persist" =>
             /\ pc' = "remove"
             /\ \A n \in Names : comps[n].modified => netfile'[n] = comps[n].value
             /\ outputs' = outputs /\ simulator' = simulator
       /\ pc = "remove" =>
             /\ pc' = "xyce"
             /\ DOMAIN outputs' \cap Range(output_suffixes(args.analysis.mode)) = {}
             /\ netfile' = netfile /\ simulator' = simulator
       /\ pc = "xyce" =>
             /\ pc' \in {"running", "cf_except"}
             /\ pc' = "running" => simulator' = {invocations'}
             /\ netfile' = netfile /\ outputs' = outputs
       /\ pc = "running" =>
             /\ pc' = "parse"
             /\ simulator' = {}
             /\ netfile' = netfile
       /\ pc = "parse" =>
             /\ pc' \in {"ls_step", "cf_except"}
             /\ netfile' = netfile /\ outputs' = outputs /\ simulator' = simulator
       /\ simulator # {} => netfile' = netfile
       /\ Cardinality(simulator') <= 1]_vars

\* A second evaluation has gone through all its steps and persisted a value
\* other than the start value.
C12_Witness ==
    /\ pc = "ls_step"
    /\ invocations = 2
    /\ simulator = {}
    /\ netfile # <<>>
    /\ netfile["R1"] # StartValue["R1"]

\* C13: the interpolation grid is the simulator's x column of the first
\* residual evaluation of the session and never changes afterwards; every
\* residual vector returned, penalty or difference, has the length of the
\* grid, and every entry of a penalty vector is 1e6.
C13_FixedGrid ==
    /\ [](residual # None =>
             /\ Len(TheValue(residual)) = Len(run_state.master_x_points)
             /\ (pc = "ls_step"
                 /\ NodeConstraintCheck(NODE_CONSTRAINTS, table, args.analysis) = "penalty") =>
                    \A i \in 1..Len(TheValue(residual)) : TheValue(residual)[i] = 1000000)
    /\ [][/\ (run_state.first_run /\ ~run_state'.first_run) =>
                (xyceRuns = 1 /\ run_state'.master_x_points = XColumn(table'))
          /\ ~run_state.first_run => run_state' = run_state]_vars

\* A penalty vector returned on a grid that differs from the x column of
\* the table of that evaluation.
C13_Witness ==
    /\ pc = "ls_step"
    /\ xyceRuns >= 2
    /\ NodeConstraintCheck(NODE_CONSTRAINTS, table, args.analysis) = "penalty"
    /\ XColumn(table) # run_state.master_x_points
    /\ residual # None

\* -------------------------------------------------------------------------
\* Properties of netlist_parse.py
\* -------------------------------------------------------------------------
NonBlank(file) == SelectSeq(file, LAMBDA line : line # <<>>)

KeywordOf(line) == Upper(line[1])

\* Number of .SUBCKT blocks open before line i of lines (none blank).
RECURSIVE DepthBefore(_, _)
DepthBefore(lines, i) ==
    IF i <= 1 THEN 0
    ELSE LET d == DepthBefore(lines, i - 1) IN
         IF KeywordOf(lines[i - 1]) = ".SUBCKT" THEN d + 1
         ELSE IF KeywordOf(lines[i - 1]) = ".ENDS" /\ d > 0 THEN d - 1
         ELSE d

\* Line i lies in a .CONTROL ... .ENDC block, the two delimiters included.
InControlBlock(lines, i) ==
    \E k \in 1..i :
        /\ KeywordOf(lines[k]) = ".CONTROL"
        /\ \A j \in k..(i - 1) : KeywordOf(lines[j]) # ".ENDC"

HasControlBlock(file) == \E i \in 1..Len(file) : file[i] # <<>> /\ KeywordOf(file[i]) = ".CONTROL"

Applied(op) == call # None /\ ret # None /\ TheValue(call).op = op

\* C14: a component or node that occurs only on statements inside a
\* .SUBCKT ... .ENDS block, at any depth, is absent from the parsed component
\* list and node set; statements after the .ENDS closing the outermost block
\* are top-level again and are collected.
C14_SubcircuitExcluded ==
    Applied("parse_file") =>
        LET lines == NonBlank(TheValue(call).file)
            parsed == TheValue(ret)
            names == {parsed.components[k].name : k \in 1..Len(parsed.components)}
            inside == {i \in 1..Len(lines) :
                          DepthBefore(lines, i) > 0 /\ KeywordOf(lines[i]) \notin {".SUBCKT", ".ENDS"}}
            top == {i \in 1..Len(lines) :
                       DepthBefore(lines, i) = 0 /\ KeywordOf(lines[i]) # ".SUBCKT"}
            insideOnly == UNION {Range(lines[i]) : i \in inside} \ UNION {Range(lines[i]) : i \in top}
        IN  /\ \A t \in insideOnly : t \notin names /\ t \notin parsed.nodes
            /\ \A i \in top :
                  (LeadingChar(lines[i][1]) = "R" /\ Len(lines[i]) >= 4
                   /\ _convert_value(lines[i][4]) # None) =>
                      /\ lines[i][1] \in names
                      /\ {lines[i][2], lines[i][3]} \subseteq parsed.nodes

\* C15: class_to_file changes the value only on the element line of the
\* modified top-level component and never changes a line inside a
\* .SUBCKT ... .ENDS block, also when a subcircuit-internal element has the
\* name of a modified top-level component and appears earlier in the file.
C15_OnlyTopLevelWritten ==
    (Applied("class_to_file") /\ ~HasControlBlock(TheValue(call).file)) =>
        LET lines == NonBlank(TheValue(call).file)
            out == TheValue(ret).lines
            cs == TheValue(call).components
        IN  /\ Len(out) = Len(lines)
            /\ \A j \in 1..Len(lines) :
                  /\ DepthBefore(lines, j) > 0 => out[j] = lines[j]
                  /\ out[j] # lines[j] =>
                        \E k \in 1..Len(cs) : cs[k].modified /\ cs[k].name = lines[j][1]

\* C16: class_to_file rewrites only the value token (the fourth token) of
\* the element line of each component flagged modified and preserves every
\* other token of that line, the tokens after the value included; lines of
\* components not flagged modified are written back unchanged.
C16_OnlyValueTokenRewritten ==
    (Applied("class_to_file") /\ ~HasControlBlock(TheValue(call).file)) =>
        LET lines == NonBlank(TheValue(call).file)
            out == TheValue(ret).lines
            cs == TheValue(call).components
            modified == {cs[k].name : k \in {i \in 1..Len(cs) : cs[i].modified}}
        IN  /\ Len(out) = Len(lines)
            /\ \A j \in 1..Len(lines) :
                  /\ Len(out[j]) = Len(lines[j])
                  /\ \A t \in 1..Len(lines[j]) : t # 4 => out[j][t] = lines[j][t]
                  /\ lines[j][1] \notin modified => out[j] = lines[j]

\* C17: the file written by class_to_file contains no line of any
\* .CONTROL ... .ENDC block of the input (the .CONTROL line, the lines
\* between and the .ENDC line are removed) and keeps every other line that
\* is not blank.
C17_ControlBlockRemoved ==
    Applied("class_to_file") =>
        LET lines == NonBlank(TheValue(call).file)
            kept == SelectSeq([i \in 1..Len(lines) |-> i], LAMBDA i : ~InControlBlock(lines, i))
            out == TheValue(ret).lines
        IN  /\ Len(out) = Len(kept)
            /\ \A j \in 1..Len(out) :
                  /\ KeywordOf(out[j]) \notin {".CONTROL", ".ENDC"}
                  /\ j <= Len(kept) => out[j][1] = lines[kept[j]][1]

\* C18: parsing, writing with class_to_file and parsing the written file
\* again yields the same top-level components in the same order with equal
\* values when no component is flagged modified; when one component was set
\* to v and flagged modified, it yields v for it and unchanged values for
\* all others.
C18_ParseWriteParse ==
    Applied("class_to_file") =>
        LET cs == TheValue(call).components
            again == TheValue(ret).reparsed.components
        IN  /\ Len(again) = Len(cs)
            /\ \A k \in 1..Len(cs) :
                  k <= Len(again) => (again[k].name = cs[k].name /\ again[k].value = cs[k].value)

WriterOps == {"writeTranCmdsToFile", "writeAcCmdsToFile", "writeNoiseCmdsToFile"}

RequestedKeyword(op) ==
    CASE op = "writeTranCmdsToFile"  -> ".TRAN"
      [] op = "writeAcCmdsToFile"    -> ".AC"
      [] op = "writeNoiseCmdsToFile" -> ".NOISE"

IsHeaderLine(line) ==
    line[1] = "*" \/ KeywordOf(line) \in {".TITLE", ".OPTIONS", ".PARAM", ".INCLUDE", ".INC", ".LIB"}

\* Length of the longest prefix of lines made of header lines only.
LeadingHeaders(lines) ==
    CHOOSE h \in 0..Len(lines) :
        /\ \A i \in 1..h : IsHeaderLine(lines[i])
        /\ h < Len(lines) => ~IsHeaderLine(lines[h + 1])

C20_WritersRaiseOnEmpty ==
    /\ (Applied("writeNoiseCmdsToFile")
        /\ (TheValue(call).output_expression = "" \/ TheValue(call).input_source = "")) =>
           /\ TheValue(ret).once.exception # None
           /\ TheValue(ret).once.lines = TheValue(call).file
    /\ (Applied("writeAcCmdsToFile")
        /\ \A i \in 1..Len(TheValue(call).names) : TheValue(call).names[i] = "") =>
           /\ TheValue(ret).once.exception # None
           /\ TheValue(ret).once.lines = TheValue(call).file

\* -------------------------------------------------------------------------
\* Properties of the bound preparation
\* -------------------------------------------------------------------------
BoundsApplied == call # None /\ ret # None /\ TheValue(call).op = "bounds"

\* C21: for a '>=' ('<=') parameter constraint add_part_constraints sets the
\* lower (upper) bound of the component to the evaluated right-hand side and
\* changes the value only when the value violates the new bound: a value
\* that satisfies it, a value equal to it included, is left unchanged, and
\* afterwards the value satisfies the bound.
C21_BoundSetValueKept ==
    (BoundsApplied /\ Len(TheValue(call).constraints) = 1) =>
        LET c == TheValue(call).constraints[1]
            r == Eval(c.right, ComponentVals(ParsedNetlist)).v
            before == ParsedNetlist[c.left]
            after == TheValue(ret).constrained[c.left]
        IN  /\ c.operator = ">=" =>
                  /\ after.minVal = r
                  /\ (after.value # before.value) <=> (before.value < r)
                  /\ after.value >= after.minVal
            /\ c.operator = "<=" =>
                  /\ after.maxVal = r
                  /\ (after.value # before.value) <=> (before.value > r)
                  /\ after.value <= after.maxVal

\* The bound the last constraint with this operator sets on component n
\* (None when the list has no such constraint).
RECURSIVE ExplicitBoundFrom(_, _, _, _, _)
ExplicitBoundFrom(cons, i, n, op, found) ==
    IF i > Len(cons) THEN found
    ELSE ExplicitBoundFrom(cons, i + 1, n, op,
             IF cons[i].left = n /\ cons[i].operator = op
             THEN Some(Eval(cons[i].right, ComponentVals(ParsedNetlist)).v)
             ELSE found)

ExplicitBound(cons, n, op) == ExplicitBoundFrom(cons, 1, n, op, None)

\* C22: for each variable component the solver's lower bound is the explicit
\* lower bound if one was set and 0 otherwise, the upper bound the explicit
\* upper bound if set and +infinity otherwise; with the default-bounds flag
\* of the element type a missing lower bound is starting value / 10 and a
\* missing upper bound starting value x 10; an explicit bound is never
\* overwritten by a default.
C22_SolverBounds ==
    BoundsApplied =>
        LET in == TheValue(call)
            out == TheValue(ret)
        IN  \A i \in 1..Len(out.changing_components) :
               LET n == out.changing_components[i]
                   flag == TypeFlag(ParsedNetlist[n].type, in.RLCBounds)
                   lo == ExplicitBound(in.constraints, n, ">=")
                   hi == ExplicitBound(in.constraints, n, "<=")
               IN  /\ out.lower_bounds[i] =
                         (IF lo # None THEN TheValue(lo)
                          ELSE IF flag THEN out.x0[i] \div 10 ELSE 0)
                   /\ out.upper_bounds[i] =
                         (IF hi # None THEN TheValue(hi)
                          ELSE IF flag THEN out.x0[i] * 10 ELSE Inf)

\* The bounds a list sets on each component do not contradict each other.
ConsistentBounds(cons) ==
    \A i \in 1..Len(cons), j \in 1..Len(cons) :
        (cons[i].left = cons[j].left /\ cons[i].operator = ">=" /\ cons[j].operator = "<=")
            => cons[i].right.c <= cons[j].right.c

\* C28: after any list of '>=' and '<=' constraints every variable component
\* has lower bound <= starting value <= upper bound, also when a '>=' and a
\* '<=' constraint on the same component set bounds less than 1 apart
\* (stated here for the lists whose bounds do not contradict each other).
C28_FeasibleStart ==
    (BoundsApplied /\ ConsistentBounds(TheValue(call).constraints)) =>
        \A i \in 1..Len(TheValue(ret).x0) :
            /\ TheValue(ret).lower_bounds[i] <= TheValue(ret).x0[i]
            /\ TheValue(ret).x0[i] <= TheValue(ret).upper_bounds[i]

\* -------------------------------------------------------------------------
\* Properties of the run as a whole
\* -------------------------------------------------------------------------
\* C23: after optimizeProcess returns, on every path, the file path of the
\* netlist object is the one it had when optimizeProcess was entered
\* (recorded at line 138), although the run repoints it in between.
C23_FilePathRestored ==
    /\ []((entry = "optimizeProcess" /\ pc = "done") => file_path = original_netlist_path)
    /\ [][/\ (entry = "optimizeProcess" /\ pc = "start") => original_netlist_path' = file_path
          /\ pc # "start" => original_netlist_path' = original_netlist_path]_vars

\* optimizeProcess has returned after a run that repointed the file path.
C23_Witness ==
    /\ entry = "optimizeProcess"
    /\ pc = "done"
    /\ writable # None
    /\ file_path = MovedNetlistPath
    /\ file_path # ORIG_NETLIST_PATH

\* The sessions of the concurrent runs.
Sessions == TheValue(ret).sessions

\* C24: session numbers are allocated without reservation: a probe writes
\* no log, so a session that probes while another session holds number n
\* and runs/<n>/session.log does not exist yet is allocated n as well;
\* sessions with the same number have the same working netlist path and the
\* same session log.
C24_AllocationRaces ==
    [][\A s \in SessionIds :
          (Sessions[s].pc = "start" /\ Sessions'[s].pc # "start") =>
              /\ logs' = logs
              /\ \A t \in SessionIds \ {s} :
                    (Sessions[t].session_num # 0
                     /\ SessionLogPath(Sessions[t].session_num) \notin DOMAIN logs) =>
                        /\ Sessions'[s].session_num = Sessions[t].session_num
                        /\ Sessions[t].writable # None =>
                              Sessions'[s].writable \in {None, Sessions[t].writable}
                        /\ Sessions[t].log # None =>
                              Sessions'[s].log \in {None, Sessions[t].log}]_vars

\* Two sessions of optimizeProcess have written the same working netlist
\* path, and two sessions of curvefit_optimize the same session log.
C24_Witness ==
    /\ call # None /\ TheValue(call).op = "sessions"
    /\ \E s, t \in SessionIds :
          /\ s # t
          /\ Sessions[s].session_num = Sessions[t].session_num
          /\ Sessions[s].writable # None
          /\ Sessions[s].writable = Sessions[t].writable
          /\ TheValue(Sessions[s].writable) \in DOMAIN TheValue(ret).copies
          /\ TheValue(ret).copies[TheValue(Sessions[s].writable)] = {s, t}
    /\ \E s, t \in SessionIds :
          /\ s # t
          /\ Sessions[s].log # None
          /\ Sessions[s].log = Sessions[t].log
          /\ TheValue(Sessions[s].log) \in DOMAIN logs
          /\ {e.session : e \in Range(logs[TheValue(Sessions[s].log)])} = {s, t}

\* -------------------------------------------------------------------------
\* Properties of the parameter-selection window
\* -------------------------------------------------------------------------
Window == TheValue(ret)

SourceNames(components) ==
    {components[k].name : k \in {j \in 1..Len(components) : components[j].type \in {"V", "I"}}}

NoDuplicate(names) == \A i, j \in 1..Len(names) : names[i] = names[j] => i = j

\* C25: no component of type V or I is in the available or the selected
\* list; the persisted selection is filtered to the names of non-source
\* components of the netlist, the available list holds exactly the top-level
\* non-source components, and every V/I component is listed in sources.
C25_SourcesNeverParameters ==
    /\ [](WindowOpen =>
            LET cs == TheValue(call).components IN
            /\ Range(Window.available_parameters) \cap SourceNames(cs) = {}
            /\ Range(Window.selected_parameters) \cap SourceNames(cs) = {}
            /\ Range(Window.available_listbox) \cap SourceNames(cs) = {}
            /\ Range(Window.selected_listbox) \cap SourceNames(cs) = {}
            /\ Range(Window.selected_parameters) \subseteq ComponentNames(cs)
            /\ Range(Window.sources) = SourceNames(cs))
    /\ [][Window_Init =>
            LET cs == TheValue(call).components
                w == TheValue(ret')
            IN
            /\ Range(w.available_parameters) = ComponentNames(cs) \ SourceNames(cs)
            /\ NoDuplicate(w.available_parameters)
            /\ w.selected_parameters =
                  SelectSeq(TheValue(call).persisted,
                            LAMBDA n : n \in ComponentNames(cs) \ SourceNames(cs))]_vars

\* A window built from a persisted selection that named sources and a
\* component that is gone, after parameters were moved both ways.
C25_Witness ==
    /\ WindowOpen
    /\ TheValue(call).persisted = <<"V1", "GONE", "C1">>
    /\ "I1" \notin ComponentNames(TheValue(call).components)
    /\ Window.selected_parameters = <<"C1", "R2">>
    /\ Window.available_parameters = <<"R1">>

TerminalMessages == {i \in 1..Len(queue) : queue[i].tag \in {"Done", "Failed"}}

\* C26: a run of optimizeProcess puts exactly one terminal message on the
\* observer channel, Done or Failed: never more than one while it runs,
\* exactly one once it has returned; UpdateOptimizationResults is on the
\* channel only in a run whose terminal message is Done.
C26_OneTerminalMessage ==
    entry = "optimizeProcess" =>
        /\ Cardinality(TerminalMessages) <= 1
        /\ pc = "done" => Cardinality(TerminalMessages) = 1
        /\ (pc = "done" /\ "UpdateOptimizationResults" \in Tags) => "Done" \in Tags
        /\ ("UpdateOptimizationResults" \in Tags /\ "Failed" \in Tags) => FALSE

\* A run of optimizeProcess that prepared its working copy, reached the
\* call and returned after reporting the failure.
C26_Witness ==
    /\ entry = "optimizeProcess"
    /\ pc = "done"
    /\ raised = "call_binding"
    /\ "Failed" \in Tags
    /\ "Done" \notin Tags

\* The solver returned and the optimum was written back.
SolveFinished == raised = "none" /\ (pc = "cf_finally" \/ (pc = "done" /\ result # None))

\* C27: when the solve has finished, the model and the working netlist
\* satisfy every equality constraint at the optimum: the left component's
\* value equals the right-hand expression evaluated over the values written
\* back for the variable components.
C27_EqualityHoldsAtOptimum ==
    SolveFinished =>
        \A i \in 1..Len(EQUALITY_PART_CONSTRAINTS) :
            LET c == EQUALITY_PART_CONSTRAINTS[i] IN
            /\ comps[c.left].value = Eval(c.right, ComponentVals(comps)).v
            /\ netfile[c.left] = Eval(c.right, netfile).v

\* Simulator invocations of the session: the processes started, and the
\* launch that failed when the run ended on it.
InvocationsPerformed == invocations + (IF raised = "simulator_start" THEN 1 ELSE 0)

====
